---- MODULE Spec2Model ----
(***************************************************************************)
(* mazerunner-core: the wall map and flood planner (maze.h) and the        *)
(* navigation loop of the mouse (mouse.h).                                 *)
(*                                                                         *)
(* Storage model.  m_walls[x][y] and m_cost[x][y] are MAZE_WIDTH by        *)
(* MAZE_WIDTH arrays stored row-major, so element [x][y] lives at offset   *)
(* x * MAZE_WIDTH + y.  Location keeps x and y in uint8_t and the          *)
(* neighbour helpers can produce coordinates of MAZE_WIDTH or more; such   *)
(* an access either lands on another element of the same array (offset     *)
(* below MAZE_CELL_COUNT) or leaves the array.  What lies outside the      *)
(* arrays is not fixed by the program: `beyond` is the byte such a read    *)
(* returns and `packed` tells whether m_walls follows m_cost directly with *)
(* one byte per WallInfo (the layout the comment at WallInfo expects), in  *)
(* which case m_cost[MAZE_CELL_COUNT + k] is the byte of m_walls element k.*)
(* Both are chosen nondeterministically in Init.                           *)
(***************************************************************************)
EXTENDS Integers, Sequences, FiniteSets, TLC

VARIABLES m_walls, m_cost, m_mask, beyond, packed, last, ops,
          location, mouse_heading, search_target, pc, result, action, aheads, world, pose,
          sensors, button, tick, seen, trace, motion, locals

mazeVars == <<m_walls, m_cost, m_mask>>
mouseVars == <<location, mouse_heading, search_target, pc, result, action, aheads, world, pose,
              sensors, button, tick, seen, trace, motion, locals>>
vars == <<m_walls, m_cost, m_mask, beyond, packed, last, ops,
          location, mouse_heading, search_target, pc, result, action, aheads, world, pose,
          sensors, button, tick, seen, trace, motion, locals>>

(* the sampling tick count and the flags update_map has read *)
snapshotVars == <<tick, seen>>

(* the calls made by the latest step of the mouse, the state of the motion   *)
(* controller and the locals of the function in progress                     *)
primitiveVars == <<trace, motion, locals>>

(* ------------------------------ constants ------------------------------ *)
EXIT == 0
WALL == 1
UNKNOWN == 2
VIRTUAL == 3
WallState == {EXIT, WALL, UNKNOWN, VIRTUAL}

MASK_OPEN == 1
MASK_CLOSED == 3
MazeMask == {MASK_OPEN, MASK_CLOSED}

NORTH == 0
EAST == 1
SOUTH == 2
WEST == 3
HEADING_COUNT == 4
BLOCKED == 99
Heading == {NORTH, EAST, SOUTH, WEST}

AHEAD == 0
RIGHT == 1
BACK == 2
LEFT == 3

MAX_COST == 255
MAZE_WIDTH == 16
MAZE_CELL_COUNT == MAZE_WIDTH * MAZE_WIDTH

(* uint8_t holds values modulo Byte *)
Byte == 256

(* ------------------------------- bounds -------------------------------- *)
(* inputs of the map operations are the cells with both coordinates in     *)
(* 0..MaxCoord or on the far edge MAZE_WIDTH - 1                           *)
MaxCoord == 1
(* number of map operations in one behaviour                               *)
MaxOps == 2

(* number of walls observed before the maze is flooded                     *)
MaxSeen == 1

(* iterations of the while loop of flood that are followed                  *)
MaxFloodSteps == 4096

(* the mazes the mouse is put in have a walled lane of 1 .. MaxLane cells   *)
(* north of the start cell                                                   *)
MaxLane == 1

(* sampling ticks that are followed while update_map runs                    *)
MaxTicks == 2

(* polls of the front sensors that are followed in wait_for_user_start        *)
MaxPolls == 8

(* bytes found outside the arrays: all EXIT / cost 0, all UNKNOWN / cost   *)
(* 170, all VIRTUAL / cost MAX_COST                                        *)
BeyondBytes == {0, 170, 255}

(* ------------------------------ bit fields ------------------------------ *)
(* a & b on two-bit values *)
BitAnd(a, b) == ((a % 2) * (b % 2)) + 2 * ((a \div 2) * (b \div 2))

(* struct WallInfo: four two-bit fields, north in the low bits *)
WallInfo == [north : WallState, east : WallState, south : WallState, west : WallState]

PackWalls(w) == w.north + 4 * w.east + 16 * w.south + 64 * w.west

UnpackWalls(b) ==
  [north |-> b % 4, east |-> (b \div 4) % 4, south |-> (b \div 16) % 4, west |-> (b \div 64) % 4]

WallField(w, heading) ==
  CASE heading = NORTH -> w.north
    [] heading = EAST -> w.east
    [] heading = SOUTH -> w.south
    [] heading = WEST -> w.west

SetWallField(w, heading, state) ==
  CASE heading = NORTH -> [w EXCEPT !.north = state]
    [] heading = EAST -> [w EXCEPT !.east = state]
    [] heading = SOUTH -> [w EXCEPT !.south = state]
    [] heading = WEST -> [w EXCEPT !.west = state]

(* ------------------------------- headings ------------------------------- *)
right_from(heading) == (heading + 1) % HEADING_COUNT

left_from(heading) == (heading + HEADING_COUNT - 1) % HEADING_COUNT

ahead_from(heading) == heading

behind_from(heading) == (heading + 2) % HEADING_COUNT

(* ------------------------------- Location ------------------------------- *)
Location(ix, iy) == [x |-> ix % Byte, y |-> iy % Byte]

START == Location(0, 0)

is_in_maze(loc) == loc.x < MAZE_WIDTH /\ loc.y < MAZE_WIDTH

north(loc) == Location(loc.x, (loc.y + 1) + MAZE_WIDTH)

east(loc) == Location((loc.x + 1) + MAZE_WIDTH, loc.y)

south(loc) == Location(loc.x, (loc.y + MAZE_WIDTH - 1) % MAZE_WIDTH)

west(loc) == Location((loc.x + MAZE_WIDTH - 1) % MAZE_WIDTH, loc.y)

neighbour(loc, heading) ==
  CASE heading = NORTH -> north(loc)
    [] heading = EAST -> east(loc)
    [] heading = SOUTH -> south(loc)
    [] heading = WEST -> west(loc)
    [] OTHER -> loc

(* the cells of the maze, and the cells the operations are tried on *)
Cells == {Location(cx, cy) : cx \in 0 .. MAZE_WIDTH - 1, cy \in 0 .. MAZE_WIDTH - 1}

InCells ==
  {c \in Cells : c.x + c.y <= MaxCoord}
    \cup {Location(MAZE_WIDTH - 1, MAZE_WIDTH - 1)}

(* the cell ahead of the start cell, whose walls are observed first *)
SeenCells == {Location(0, 1)}

(* targets of the flood: the start cell, GOAL of config.h, the default m_goal_loc *)
Targets == {START, Location(2, 2), Location(7, 7)}

(* ------------------------------- storage -------------------------------- *)
(* offset of element [loc.x][loc.y] of a MAZE_WIDTH x MAZE_WIDTH array *)
Offset(loc) == loc.x * MAZE_WIDTH + loc.y

(* m_walls[loc.x][loc.y] as an rvalue *)
WallsAt(walls, loc) ==
  IF Offset(loc) < MAZE_CELL_COUNT THEN walls[Offset(loc)] ELSE UnpackWalls(beyond)

(* m_walls[loc.x][loc.y].<heading> = state *)
StoreWall(walls, loc, heading, state) ==
  IF Offset(loc) < MAZE_CELL_COUNT
    THEN [walls EXCEPT ![Offset(loc)] = SetWallField(@, heading, state)]
    ELSE walls

(* m_cost[loc.x][loc.y] as an rvalue; mem is [cost, walls] *)
CostAt(mem, loc) ==
  IF Offset(loc) < MAZE_CELL_COUNT THEN mem.cost[Offset(loc)]
  ELSE IF packed /\ Offset(loc) < 2 * MAZE_CELL_COUNT
    THEN PackWalls(mem.walls[Offset(loc) - MAZE_CELL_COUNT])
  ELSE beyond

(* m_cost[loc.x][loc.y] = value *)
StoreCost(mem, loc, value) ==
  IF Offset(loc) < MAZE_CELL_COUNT
    THEN [mem EXCEPT !.cost[Offset(loc)] = value % Byte]
  ELSE IF packed /\ Offset(loc) < 2 * MAZE_CELL_COUNT
    THEN [mem EXCEPT !.walls[Offset(loc) - MAZE_CELL_COUNT] = UnpackWalls(value % Byte)]
  ELSE mem

Memory == [cost |-> m_cost, walls |-> m_walls]

(* --------------------------------- Maze --------------------------------- *)
walls(loc) == WallsAt(m_walls, loc)

has_unknown_walls(cell) ==
  LET walls_here == WallsAt(m_walls, cell)
  IN  walls_here.north = UNKNOWN \/ walls_here.east = UNKNOWN
        \/ walls_here.south = UNKNOWN \/ walls_here.west = UNKNOWN

cell_is_visited(cell) == ~has_unknown_walls(cell)

(* is_exit without the mask: only a slot that holds EXIT is an exit *)
IsExitIgnoringMask(wallArray, loc, heading) ==
  IF heading \in Heading
    THEN WallField(WallsAt(wallArray, loc), heading) = EXIT
    ELSE FALSE

(* is_exit evaluated on a given wall array *)
IsExitIn(wallArray, loc, heading) ==
  IF heading \in Heading
    THEN BitAnd(WallField(WallsAt(wallArray, loc), heading), m_mask) = EXIT
    ELSE FALSE

is_exit(loc, heading) == IsExitIn(m_walls, loc, heading)

SetWallStateIn(wallArray, loc, heading, state) ==
  IF heading \in Heading
    THEN StoreWall(StoreWall(wallArray, loc, heading, state),
                   neighbour(loc, heading), behind_from(heading), state)
    ELSE wallArray

(* update_wall_state with the test inverted: it returns when the wall is unseen *)
UpdateReturnsEarlyInverted(wallArray, loc, heading) ==
  /\ heading \in Heading
  /\ BitAnd(WallField(WallsAt(wallArray, loc), heading), UNKNOWN) = UNKNOWN

(* the early return of update_wall_state *)
UpdateReturnsEarly(wallArray, loc, heading) ==
  /\ heading \in Heading
  /\ BitAnd(WallField(WallsAt(wallArray, loc), heading), UNKNOWN) # UNKNOWN

UpdateWallStateIn(wallArray, loc, heading, state) ==
  IF UpdateReturnsEarly(wallArray, loc, heading)
    THEN wallArray
    ELSE SetWallStateIn(wallArray, loc, heading, state)

AllUnknown == [north |-> UNKNOWN, east |-> UNKNOWN, south |-> UNKNOWN, west |-> UNKNOWN]

InitialisedWalls ==
  LET cleared == [o \in 0 .. MAZE_CELL_COUNT - 1 |-> AllUnknown]
      rows == [o \in 0 .. MAZE_CELL_COUNT - 1 |->
                 LET w == cleared[o]
                     s == IF o % MAZE_WIDTH = 0 THEN [w EXCEPT !.south = WALL] ELSE w
                 IN  IF o % MAZE_WIDTH = MAZE_WIDTH - 1 THEN [s EXCEPT !.north = WALL] ELSE s]
      cols == [o \in 0 .. MAZE_CELL_COUNT - 1 |->
                 LET w == rows[o]
                     s == IF o \div MAZE_WIDTH = 0 THEN [w EXCEPT !.west = WALL] ELSE w
                 IN  IF o \div MAZE_WIDTH = MAZE_WIDTH - 1 THEN [s EXCEPT !.east = WALL] ELSE s]
  IN  [cols EXCEPT ![0] = [north |-> EXIT, east |-> WALL, south |-> WALL, west |-> WALL]]

(* a maze with the outer boundary walls only: WALL on the four edges, EXIT   *)
(* on every interior wall                                                    *)
OpenMazeWalls ==
  [o \in 0 .. MAZE_CELL_COUNT - 1 |->
     [north |-> IF o % MAZE_WIDTH = MAZE_WIDTH - 1 THEN WALL ELSE EXIT,
      east |-> IF o \div MAZE_WIDTH = MAZE_WIDTH - 1 THEN WALL ELSE EXIT,
      south |-> IF o % MAZE_WIDTH = 0 THEN WALL ELSE EXIT,
      west |-> IF o \div MAZE_WIDTH = 0 THEN WALL ELSE EXIT]]

(* neighbour_cost without the is_exit test *)
NeighbourCostThroughWalls(cell, heading) == CostAt(Memory, neighbour(cell, heading))

neighbour_cost(cell, heading) ==
  IF ~is_exit(cell, heading) THEN MAX_COST ELSE CostAt(Memory, neighbour(cell, heading))

cost(cell) == CostAt(Memory, cell)

(* Queue<Location, 64>: a first-in first-out queue of locations *)
QueueAdd(queue, item) == Append(queue, item)

QueueHead(queue) == Head(queue)

QueueRest(queue) == Tail(queue)

(* one pass of the for loop of flood for heading h; st is [cost, walls, queue] *)
FloodVisit(st, here, newCost, h) ==
  IF IsExitIn(st.walls, here, h)
    THEN LET nextCell == neighbour(here, h)
         IN  IF CostAt(st, nextCell) > newCost
               THEN LET stored == StoreCost(st, nextCell, newCost)
                    IN  [stored EXCEPT !.queue = QueueAdd(st.queue, nextCell)]
               ELSE st
    ELSE st

(* one iteration of the while loop of flood: take the head of the queue and  *)
(* look at its four headings in the order NORTH, EAST, SOUTH, WEST           *)
FloodStep(st) ==
  IF Len(st.queue) = 0 THEN st
  ELSE LET here == QueueHead(st.queue)
           newCost == CostAt(st, here) + 1
           s0 == [st EXCEPT !.queue = QueueRest(st.queue), !.taken = @ + 1]
           s1 == FloodVisit(s0, here, newCost, NORTH)
           s2 == FloodVisit(s1, here, newCost, EAST)
           s3 == FloodVisit(s2, here, newCost, SOUTH)
           s4 == FloodVisit(s3, here, newCost, WEST)
       IN  s4

(* the while loop of flood: FloodStep repeated until the queue is empty, at  *)
(* most n times (the repetition is split in halves to keep evaluation flat)  *)
RECURSIVE FloodLoop(_, _)
FloodLoop(st, n) ==
  IF Len(st.queue) = 0 \/ n = 0 THEN st
  ELSE IF n = 1 THEN FloodStep(st)
  ELSE FloodLoop(FloodLoop(st, n \div 2), n - (n \div 2))

Flooded(wallArray, target) ==
  LET filled == [cost |-> [o \in 0 .. MAZE_CELL_COUNT - 1 |-> MAX_COST],
                 walls |-> wallArray, queue |-> <<>>, taken |-> 0]
      zeroed == StoreCost(filled, target, 0)
  IN  FloodLoop([zeroed EXCEPT !.queue = QueueAdd(zeroed.queue, target)], MaxFloodSteps)

(* the comparison of heading_to_smallest with <= in place of < *)
HeadingStepNotStrict(cell, best, next_heading) ==
  IF neighbour_cost(cell, next_heading) <= best.cost
    THEN [cost |-> neighbour_cost(cell, next_heading), heading |-> next_heading]
    ELSE best

(* one look of heading_to_smallest at a heading; best is [cost, heading] *)
HeadingStep(cell, best, next_heading) ==
  IF neighbour_cost(cell, next_heading) < best.cost
    THEN [cost |-> neighbour_cost(cell, next_heading), heading |-> next_heading]
    ELSE best

heading_to_smallest(cell, start_heading) ==
  LET b0 == [cost |-> cost(cell), heading |-> BLOCKED]
      b1 == HeadingStep(cell, b0, start_heading)
      b2 == HeadingStep(cell, b1, right_from(start_heading))
      b3 == HeadingStep(cell, b2, left_from(start_heading))
      b4 == HeadingStep(cell, b3, behind_from(start_heading))
  IN  IF b4.cost = MAX_COST THEN BLOCKED ELSE b4.heading

(* ------------------------------ operations ------------------------------ *)
(* ------------------------------- Sensors -------------------------------- *)
STEER_NORMAL == 0
STEER_LEFT_WALL == 1
STEER_RIGHT_WALL == 2
STEERING_OFF == 3

SteeringMode == {STEER_NORMAL, STEER_LEFT_WALL, STEER_RIGHT_WALL, STEERING_OFF}

(* The robot configuration: readings are normalised so that a robot centred  *)
(* between the walls reads the nominal value; a wall is seen above the        *)
(* threshold.                                                                 *)
SIDE_NOMINAL == 100
LEFT_THRESHOLD == 40
RIGHT_THRESHOLD == 40
FRONT_THRESHOLD == 20

(* above this front sum the side sensors are not used for steering *)
FrontSaturation == 100

(* normalised readings of a side sensor and of one front sensor *)
SideReadings == {LEFT_THRESHOLD, LEFT_THRESHOLD + 1, SIDE_NOMINAL + 30}

FrontReadings == {0, FrontSaturation \div 2, FrontSaturation \div 2 + 1}

(* the locals of update_map before it has read a flag, each with the number  *)
(* of the sampling tick that wrote the flag read                              *)
NothingSeen ==
  [leftWall |-> FALSE, frontWall |-> FALSE, rightWall |-> FALSE,
   leftTick |-> 0, frontTick |-> 0, rightTick |-> 0]

(* ------------------------------- the ADC --------------------------------- *)
NO_START == 0
LEFT_START == 1
RIGHT_START == 2

(* The board configuration: the ADC channel of each wall sensor, the pins of *)
(* the battery divider and of the function switch, and the factor that        *)
(* normalises a raw reading, as a fraction.                                   *)
RFS_CHANNEL == 0
RSS_CHANNEL == 1
LSS_CHANNEL == 2
LFS_CHANNEL == 3

(* analogue inputs can be named by pin, A0 being pin 14, or by channel *)
AnalogPin(n) == 14 + n

BATTERY_VOLTS == AnalogPin(7)
FUNCTION_PIN == AnalogPin(6)

FRONT_LEFT_SCALE == [num |-> 1, den |-> 2]
FRONT_RIGHT_SCALE == [num |-> 1, den |-> 2]
LEFT_SCALE == [num |-> 1, den |-> 2]
RIGHT_SCALE == [num |-> 1, den |-> 2]

(* What is in front of the sensors during one sampling cycle: the light each  *)
(* wall sensor receives back from its emitter. A hand over a front sensor     *)
(* returns more than 100, a side wall more than twice the threshold.          *)
Scenes ==
  [lfs : {20, 101}, rfs : {21, 101}, lss : {2 * LEFT_THRESHOLD, 2 * LEFT_THRESHOLD + 2},
   rss : {2 * RIGHT_THRESHOLD + 2}]

Unlit == [lfs |-> 0, rfs |-> 0, lss |-> 0, rss |-> 0]

(* the value a conversion of a channel gives: the ambient light on it, and    *)
(* with the emitters lit the light that comes back as well                    *)
AdcReading(scene, channel, lit) ==
  LET ambient == 10 + channel
      reflected == CASE channel = LFS_CHANNEL -> scene.lfs
                     [] channel = LSS_CHANNEL -> scene.lss
                     [] channel = RSS_CHANNEL -> scene.rss
                     [] channel = RFS_CHANNEL -> scene.rfs
                     [] OTHER -> 5 + channel
  IN  ambient + (IF lit THEN reflected ELSE 0)

(* the conversion in the result register: the channel it was taken from,      *)
(* whether an emitter was lit when it was taken, and its value                *)
NoConversion == [channel |-> 0, lit |-> FALSE, value |-> 0]

(* the sensor globals before the first tick *)
SensorsAtReset ==
  [enabled |-> FALSE, steering_mode |-> STEER_NORMAL,
   lfs |-> 0, lss |-> 0, rss |-> 0, rfs |-> 0, front_sum |-> 0,
   lss_has_wall |-> FALSE, front_has_wall |-> FALSE, rss_has_wall |-> FALSE,
   lfs_raw |-> 0, lss_raw |-> 0, rss_raw |-> 0, rfs_raw |-> 0,
   adc |-> [i \in 0 .. 5 |-> 0], battery_adc_reading |-> 0, switches_adc_reading |-> 0,
   sensor_phase |-> 0, adie |-> FALSE, emitter_a |-> FALSE, emitter_b |-> FALSE,
   scene |-> Unlit, conversion |-> NoConversion,
   dark_sample |-> [i \in 0 .. 5 |-> NoConversion],
   lit_sample |-> [i \in 0 .. 5 |-> NoConversion]]

(* the error update_wall_sensors computes from the steering mode before it    *)
(* looks at the front sum, with every mode steering on both walls             *)
SteeringErrorBothWallsAlways(mode, lss, rss, lssWall, rssWall) ==
  LET right_error == SIDE_NOMINAL - rss
      left_error == SIDE_NOMINAL - lss
  IN  IF mode = STEERING_OFF THEN 0 ELSE left_error - right_error

(* the error update_wall_sensors computes from the steering mode before it    *)
(* looks at the front sum                                                     *)
SteeringError(mode, lss, rss, lssWall, rssWall) ==
  LET right_error == SIDE_NOMINAL - rss
      left_error == SIDE_NOMINAL - lss
  IN  CASE mode = STEER_NORMAL ->
             (CASE lssWall /\ rssWall -> left_error - right_error
                [] lssWall /\ ~rssWall -> 2 * left_error
                [] ~lssWall /\ rssWall -> (-2) * right_error
                [] OTHER -> 0)
        [] mode = STEER_LEFT_WALL -> 2 * left_error
        [] mode = STEER_RIGHT_WALL -> (-2) * right_error
        [] OTHER -> 0

(* a tick that steers on the side sensors however close the wall ahead is *)
WallSensorsUpdateNoSaturation(sen, lfs, lss, rss, rfs) ==
  LET lssWall == lss > LEFT_THRESHOLD
      rssWall == rss > RIGHT_THRESHOLD
      frontSum == lfs + rfs
      error == SteeringError(sen.steering_mode, lss, rss, lssWall, rssWall)
  IN  [globals |-> [sen EXCEPT !.lfs = lfs, !.lss = lss, !.rss = rss, !.rfs = rfs,
                               !.front_sum = frontSum, !.lss_has_wall = lssWall,
                               !.rss_has_wall = rssWall,
                               !.front_has_wall = (frontSum > FRONT_THRESHOLD)],
       error |-> error]

(* the globals after a tick with the sensors enabled, and the value returned *)
WallSensorsUpdate(sen, lfs, lss, rss, rfs) ==
  LET lssWall == lss > LEFT_THRESHOLD
      rssWall == rss > RIGHT_THRESHOLD
      frontSum == lfs + rfs
      error == SteeringError(sen.steering_mode, lss, rss, lssWall, rssWall)
  IN  [globals |-> [sen EXCEPT !.lfs = lfs, !.lss = lss, !.rss = rss, !.rfs = rfs,
                               !.front_sum = frontSum, !.lss_has_wall = lssWall,
                               !.rss_has_wall = rssWall,
                               !.front_has_wall = (frontSum > FRONT_THRESHOLD)],
       error |-> IF frontSum > FrontSaturation THEN 0 ELSE error]

(* ------------------------------- motion ---------------------------------- *)
(* distances along the cell in mm; a cell is FULL_CELL long and the walls of *)
(* the next cell are read at SENSING_POSITION                                *)
FULL_CELL == 180

HALF_CELL == FULL_CELL \div 2

SENSING_POSITION == 170

(* the smooth turns of the search, and run_in and trigger of turn_params      *)
SS90EL == 0

SS90ER == 1

TurnIds == {SS90EL, SS90ER}

turn_params == [id \in TurnIds |-> [run_in |-> 20, trigger |-> 70]]

EXTRA_WALL_ADJUST == 5

FRONT_REFERENCE == 85

(* the robot covers PositionStep mm between two looks at its position *)
PositionStep == 10

(* motion.position() and motion.move_finished(): at rest after construction,  *)
(* under way at the sensing point, halted in the middle of the next cell      *)
AtRest == [position |-> 0, finished |-> TRUE]

AtSensingPoint == [position |-> SENSING_POSITION, finished |-> TRUE]

(* a start_adc that takes every argument for a channel number *)
StartAdcChannelOnly(sen, pin) ==
  LET channel == pin % 8
      lit == sen.emitter_a \/ sen.emitter_b
  IN  [sen EXCEPT !.conversion = [channel |-> channel, lit |-> lit,
                                  value |-> AdcReading(sen.scene, channel, lit)]]
(* start_adc selects the channel and starts a conversion, which samples the   *)
(* input as it is now                                                         *)
StartAdc(sen, pin) ==
  LET channel == (IF pin >= 14 THEN pin - 14 ELSE pin) % 8
      lit == sen.emitter_a \/ sen.emitter_b
  IN  [sen EXCEPT !.conversion = [channel |-> channel, lit |-> lit,
                                  value |-> AdcReading(sen.scene, channel, lit)]]

StartSensorCycle(sen, scene) ==
  StartAdc([sen EXCEPT !.sensor_phase = 0, !.adie = TRUE, !.scene = scene], 0)

(* one run of the conversion-complete interrupt *)
SensorUpdate(sen) ==
  LET phase == sen.sensor_phase
      got == sen.conversion
      stepped ==
        CASE phase = 0 -> StartAdc(sen, BATTERY_VOLTS)
          [] phase = 1 ->
               StartAdc([sen EXCEPT !.battery_adc_reading = got.value], FUNCTION_PIN)
          [] phase = 2 ->
               StartAdc([sen EXCEPT !.switches_adc_reading = got.value], AnalogPin(0))
          [] phase \in 3 .. 7 ->
               StartAdc([sen EXCEPT !.adc[phase - 3] = got.value,
                                    !.dark_sample[phase - 3] = got],
                        AnalogPin(phase - 2))
          [] phase = 8 ->
               StartAdc([sen EXCEPT !.adc[5] = got.value, !.dark_sample[5] = got,
                                    !.emitter_a = sen.enabled \/ @,
                                    !.emitter_b = sen.enabled \/ @],
                        AnalogPin(7))
          [] phase = 9 -> StartAdc(sen, AnalogPin(0))
          [] phase \in 10 .. 14 ->
               StartAdc([sen EXCEPT !.adc[phase - 10] = got.value - sen.adc[phase - 10],
                                    !.lit_sample[phase - 10] = got],
                        AnalogPin(phase - 9))
          [] phase = 15 ->
               [sen EXCEPT !.adc[5] = got.value - sen.adc[5], !.lit_sample[5] = got,
                           !.emitter_a = FALSE, !.emitter_b = FALSE, !.adie = FALSE]
          [] OTHER -> sen
  IN  [stepped EXCEPT !.sensor_phase = (phase + 1) % 256]

(* (int)(raw * scale) for a reading that is not negative *)
Normalised(raw, scale) == (raw * scale.num) \div scale.den

(* the readings update_wall_sensors takes from adc[], having clamped the      *)
(* first four at 0                                                            *)
RawReadings(sen) ==
  LET clamped == [i \in 0 .. 5 |-> IF i <= 3 /\ sen.adc[i] < 0 THEN 0 ELSE sen.adc[i]]
  IN  [sen EXCEPT !.adc = clamped,
                  !.rfs_raw = clamped[RFS_CHANNEL], !.rss_raw = clamped[RSS_CHANNEL],
                  !.lss_raw = clamped[LSS_CHANNEL], !.lfs_raw = clamped[LFS_CHANNEL]]

(* an update_wall_sensors that does not look at s_sensors_enabled *)
WallSensorsFromAdcAlways(sen) ==
  LET raw == RawReadings(sen)
  IN  WallSensorsUpdate(raw, Normalised(raw.lfs_raw, FRONT_LEFT_SCALE),
                        Normalised(raw.lss_raw, LEFT_SCALE),
                        Normalised(raw.rss_raw, RIGHT_SCALE),
                        Normalised(raw.rfs_raw, FRONT_RIGHT_SCALE))
(* update_wall_sensors on the readings of the sampling cycle, and the value   *)
(* returned                                                                   *)
WallSensorsFromAdc(sen) ==
  IF ~sen.enabled
    THEN [globals |-> sen, error |-> 0]
    ELSE LET raw == RawReadings(sen)
         IN  WallSensorsUpdate(raw, Normalised(raw.lfs_raw, FRONT_LEFT_SCALE),
                               Normalised(raw.lss_raw, LEFT_SCALE),
                               Normalised(raw.rss_raw, RIGHT_SCALE),
                               Normalised(raw.rfs_raw, FRONT_RIGHT_SCALE))

(* the conversions of one cycle, run to the end *)
RECURSIVE CycleRun(_)
CycleRun(sen) == IF sen.adie THEN CycleRun(SensorUpdate(sen)) ELSE sen

(* a hand that is taken for a start after five polls already *)
HeldForFivePolls(count) == count >= 5

(* the test wait_for_user_start makes of the number of polls a front sensor   *)
(* stayed covered                                                             *)
HeldLongEnough(count) == count > 5

occluded_left(sen) == sen.lfs_raw > 100 /\ sen.rfs_raw < 100

occluded_right(sen) == sen.lfs_raw < 100 /\ sen.rfs_raw > 100

Centred == [position |-> FULL_CELL + HALF_CELL, finished |-> TRUE]

(* the function the user started (leg 1 of search_maze runs to the goal, leg  *)
(* 2 back to the start), the locals of turn_smooth and stop_at_center, and   *)
(* those of wait_for_user_start with the polls it has made                    *)
NoLocals ==
  [entry |-> "none", leg |-> 0, turn_id |-> SS90EL, trigger |-> 0, turn_point |-> 0,
   triggered_by_sensor |-> FALSE, has_wall |-> FALSE,
   count |-> 0, choice |-> NO_START, polls |-> << >>]

(* `last` records the latest call: its arguments, whether it stored         *)
(* anything (for flood: whether the queue ran empty), the number of queue    *)
(* entries flood took, and the value returned                                *)
NoCall ==
  [op |-> "none", loc |-> START, heading |-> NORTH, state |-> EXIT, wrote |-> FALSE,
   taken |-> 0, result |-> 0]

Planned == last.op \in {"flood", "flood_again", "heading_to_smallest"}

(* the state after construction: the maze arrays are zeroed and Mouse() has  *)
(* run init(), which switches the steering off                               *)
Init ==
  /\ m_walls = [o \in 0 .. MAZE_CELL_COUNT - 1 |-> UnpackWalls(0)]
  /\ m_cost = [o \in 0 .. MAZE_CELL_COUNT - 1 |-> 0]
  /\ m_mask = MASK_OPEN
  /\ beyond \in BeyondBytes
  /\ packed \in BOOLEAN
  /\ last = NoCall
  /\ ops = 0
  /\ location = START
  /\ mouse_heading = NORTH
  /\ search_target = START
  /\ pc = "idle"
  /\ result = 0
  /\ action = "#"
  /\ aheads = 0
  /\ world = [lane |-> 1, closed |-> FALSE]
  /\ pose = [cell |-> START, heading |-> NORTH]
  /\ sensors = [SensorsAtReset EXCEPT !.steering_mode = STEERING_OFF]
  /\ button = FALSE
  /\ tick = 0
  /\ seen = NothingSeen
  /\ trace = <<>>
  /\ motion = AtRest
  /\ locals = NoLocals

(* initialise without its call of set_mask *)
initialise_keeps_mask ==
  /\ ~Planned
  /\ m_walls' = InitialisedWalls
  /\ last' = [NoCall EXCEPT !.op = "initialise", !.wrote = TRUE]
  /\ UNCHANGED <<m_cost, m_mask, beyond, packed, ops, mouseVars>>

initialise ==
  /\ ~Planned
  /\ m_walls' = InitialisedWalls
  /\ m_mask' = MASK_OPEN
  /\ last' = [NoCall EXCEPT !.op = "initialise", !.wrote = TRUE]
  /\ UNCHANGED <<m_cost, beyond, packed, ops, mouseVars>>

(* the test maze with no interior walls is set up *)
open_maze ==
  /\ ~Planned
  /\ m_walls' = OpenMazeWalls
  /\ last' = [NoCall EXCEPT !.op = "open_maze", !.wrote = TRUE]
  /\ UNCHANGED <<m_cost, m_mask, beyond, packed, ops, mouseVars>>

set_wall_state(loc, heading, state) ==
  /\ ops < MaxOps
  /\ m_walls' = SetWallStateIn(m_walls, loc, heading, state)
  /\ last' = [NoCall EXCEPT !.op = "set_wall_state", !.loc = loc, !.heading = heading,
                            !.state = state, !.wrote = TRUE]
  /\ ops' = ops + 1
  /\ UNCHANGED <<m_cost, m_mask, beyond, packed, mouseVars>>

update_wall_state(loc, heading, state) ==
  /\ ops < MaxOps
  /\ ~Planned
  /\ m_walls' = UpdateWallStateIn(m_walls, loc, heading, state)
  /\ last' = [NoCall EXCEPT !.op = "update_wall_state", !.loc = loc, !.heading = heading,
                            !.state = state,
                            !.wrote = ~UpdateReturnsEarly(m_walls, loc, heading)]
  /\ ops' = ops + 1
  /\ UNCHANGED <<m_cost, m_mask, beyond, packed, mouseVars>>

set_mask(mask) ==
  /\ ~Planned
  /\ m_mask' = mask
  /\ last' = [NoCall EXCEPT !.op = "set_mask"]
  /\ UNCHANGED <<m_walls, m_cost, beyond, packed, ops, mouseVars>>

flood(target) ==
  /\ ~Planned
  /\ LET done == Flooded(m_walls, target)
     IN  /\ m_cost' = done.cost
         /\ m_walls' = done.walls
         /\ last' = [NoCall EXCEPT !.op = "flood", !.loc = target,
                                   !.wrote = (Len(done.queue) = 0), !.taken = done.taken]
  /\ UNCHANGED <<m_mask, beyond, packed, ops, mouseVars>>

(* a call of heading_to_smallest on the flooded maze *)
heading_query(cell, start_heading) ==
  /\ Planned
  /\ last' = [NoCall EXCEPT !.op = "heading_to_smallest", !.loc = cell,
                            !.heading = start_heading,
                            !.result = heading_to_smallest(cell, start_heading)]
  /\ UNCHANGED <<m_walls, m_cost, m_mask, beyond, packed, ops, mouseVars>>

(* the wall operations read and write the wall array of in-maze cells and   *)
(* nothing outside the arrays, so one choice of beyond and packed is followed *)
InitWalls == Init /\ beyond = 0 /\ ~packed

(* the wall store on its own: map set-up and exploration writes *)
NextWalls ==
  \/ initialise
  \/ \E loc \in InCells, heading \in Heading, state \in WallState :
       set_wall_state(loc, heading, state)
  \/ \E loc \in InCells, heading \in Heading, state \in WallState :
       update_wall_state(loc, heading, state)

SpecWalls == InitWalls /\ [][NextWalls]_vars

(* the wall store with the mask set either way between writes to the walls  *)
(* of the start cell and of the cell east of it                              *)
MaskedCells == {START, Location(1, 0)}

NextMasked ==
  \/ initialise
  \/ \E mask \in MazeMask : set_mask(mask)
  \/ \E loc \in MaskedCells, heading \in Heading, state \in WallState :
       set_wall_state(loc, heading, state)

SpecMasked == InitWalls /\ [][NextMasked]_vars

(* exploration: the map is initialised and then written by update_wall_state *)
NextExplore ==
  \/ initialise
  \/ \E loc \in InCells, heading \in Heading, state \in WallState :
       update_wall_state(loc, heading, state)

SpecExplore == InitWalls /\ [][NextExplore]_vars

(* planning: walls are observed, the maze is flooded and headings are asked *)
Exploring == last.op \in {"initialise", "update_wall_state"}

NextPlan ==
  \/ initialise
  \/ open_maze
  \/ \E mask \in MazeMask : set_mask(mask)
  \/ \E loc \in SeenCells, heading \in Heading :
       Exploring /\ ops < MaxSeen /\ update_wall_state(loc, heading, WALL)
  \/ \E target \in Targets : flood(target)
  \/ \E cell \in InCells \cup Targets, start_heading \in Heading :
       heading_query(cell, start_heading)

SpecPlan == Init /\ [][NextPlan]_vars

(* flood called once more with the target of the flood before it *)
flood_again ==
  /\ last.op = "flood"
  /\ LET done == Flooded(m_walls, last.loc)
     IN  /\ m_cost' = done.cost
         /\ m_walls' = done.walls
         /\ last' = [NoCall EXCEPT !.op = "flood_again", !.loc = last.loc,
                                   !.wrote = (Len(done.queue) = 0), !.taken = done.taken]
  /\ UNCHANGED <<m_mask, beyond, packed, ops, mouseVars>>

(* walls are observed and the maze is flooded, once or twice in succession *)
NextReflood ==
  \/ initialise
  \/ open_maze
  \/ \E mask \in MazeMask : set_mask(mask)
  \/ \E loc \in SeenCells, heading \in Heading :
       Exploring /\ ops < MaxSeen /\ update_wall_state(loc, heading, WALL)
  \/ \E target \in Targets : flood(target)
  \/ flood_again

SpecReflood == Init /\ [][NextReflood]_vars

(* set_mask called after a flood, before the maze is flooded again: `last`    *)
(* keeps the target of that flood and the mask it ran under                   *)
set_mask_between(mask) ==
  /\ last.op = "flood"
  /\ m_mask' = mask
  /\ last' = [NoCall EXCEPT !.op = "set_mask_between", !.loc = last.loc,
                            !.wrote = last.wrote, !.result = m_mask]
  /\ UNCHANGED <<m_walls, m_cost, beyond, packed, ops, mouseVars>>

(* flood called with the same target once the mask has been set again *)
flood_remasked ==
  /\ last.op = "set_mask_between"
  /\ LET done == Flooded(m_walls, last.loc)
     IN  /\ m_cost' = done.cost
         /\ m_walls' = done.walls
         /\ last' = [NoCall EXCEPT !.op = "flood_remasked", !.loc = last.loc,
                                   !.wrote = (Len(done.queue) = 0), !.taken = done.taken,
                                   !.result = last.result]
  /\ UNCHANGED <<m_mask, beyond, packed, ops, mouseVars>>

(* the maze is set up, flooded under one mask and then, with the same target, *)
(* under a mask set in between                                                *)
SettingUp == last.op \notin {"set_mask_between", "flood_remasked"}

NextMasks ==
  \/ SettingUp /\ initialise
  \/ SettingUp /\ open_maze
  \/ \E mask \in MazeMask : SettingUp /\ set_mask(mask)
  \/ \E loc \in SeenCells, heading \in Heading :
       Exploring /\ ops < MaxSeen /\ update_wall_state(loc, heading, WALL)
  \/ \E target \in Targets : SettingUp /\ flood(target)
  \/ \E mask \in MazeMask : set_mask_between(mask)
  \/ flood_remasked

SpecMasks == Init /\ [][NextMasks]_vars

(* --------------------------- sensor operations --------------------------- *)
sensorFrame == <<m_walls, m_cost, m_mask, beyond, packed, ops, location, mouse_heading,
                 search_target, pc, result, action, aheads, world, pose, button>>

enable_sensors ==
  /\ sensors' = [sensors EXCEPT !.enabled = TRUE]
  /\ last' = [NoCall EXCEPT !.op = "enable_sensors"]
  /\ UNCHANGED <<sensorFrame, snapshotVars, primitiveVars>>

disable_sensors ==
  /\ sensors' = [sensors EXCEPT !.enabled = FALSE]
  /\ last' = [NoCall EXCEPT !.op = "disable_sensors"]
  /\ UNCHANGED <<sensorFrame, snapshotVars, primitiveVars>>

set_steering_mode(mode) ==
  /\ sensors' = [sensors EXCEPT !.steering_mode = mode]
  /\ last' = [NoCall EXCEPT !.op = "set_steering_mode", !.result = mode]
  /\ UNCHANGED <<sensorFrame, snapshotVars, primitiveVars>>

(* one tick: the normalised readings of the four sensors come in *)
update_wall_sensors(lfs, lss, rss, rfs) ==
  /\ IF ~sensors.enabled
       THEN /\ last' = [NoCall EXCEPT !.op = "update_wall_sensors", !.result = 0]
            /\ UNCHANGED sensors
       ELSE LET now == WallSensorsUpdate(sensors, lfs, lss, rss, rfs)
            IN  /\ sensors' = now.globals
                /\ last' = [NoCall EXCEPT !.op = "update_wall_sensors", !.wrote = TRUE,
                                          !.result = now.error]
  /\ UNCHANGED <<sensorFrame, snapshotVars, primitiveVars>>

NextSensors ==
  \/ enable_sensors
  \/ disable_sensors
  \/ \E mode \in SteeringMode : set_steering_mode(mode)
  \/ \E lfs, rfs \in FrontReadings, lss, rss \in SideReadings :
       update_wall_sensors(lfs, lss, rss, rfs)

SpecSensors == Init /\ [][NextSensors]_vars

(* --------------------------- the sampling cycle -------------------------- *)
(* the tick starts a cycle of conversions with a scene in front of the robot *)
start_sensor_cycle(scene) ==
  /\ tick < MaxTicks
  /\ sensors' = StartSensorCycle(sensors, scene)
  /\ tick' = tick + 1
  /\ last' = [NoCall EXCEPT !.op = "start_sensor_cycle"]
  /\ UNCHANGED <<sensorFrame, seen, primitiveVars>>

(* the conversion-complete interrupt, which runs while it is enabled; the     *)
(* phase it ran in is recorded                                                *)
update ==
  /\ sensors.adie
  /\ sensors' = SensorUpdate(sensors)
  /\ last' = [NoCall EXCEPT !.op = "update", !.result = sensors.sensor_phase]
  /\ UNCHANGED <<sensorFrame, snapshotVars, primitiveVars>>

(* the tick's update_wall_sensors, on what adc[] holds when no cycle is in    *)
(* progress                                                                   *)
update_wall_sensors_adc ==
  /\ ~sensors.adie
  /\ LET now == WallSensorsFromAdc(sensors)
     IN  /\ sensors' = now.globals
         /\ last' = [NoCall EXCEPT !.op = "update_wall_sensors_adc",
                                   !.wrote = sensors.enabled, !.result = now.error]
  /\ UNCHANGED <<sensorFrame, snapshotVars, primitiveVars>>

NextSampling ==
  \/ enable_sensors
  \/ disable_sensors
  \/ \E scene \in Scenes : start_sensor_cycle(scene)
  \/ update
  \/ update_wall_sensors_adc

SpecSampling == InitWalls /\ [][NextSampling]_vars

(* --------------------------- wait_for_user_start ------------------------- *)
startFrame == <<m_walls, m_cost, m_mask, beyond, packed, ops, location, mouse_heading,
                search_target, action, aheads, world, pose, button, tick, seen, trace, motion>>

(* one tick with a scene in front of the robot: update_wall_sensors on the   *)
(* readings of the cycle before, then a cycle of conversions, which is over  *)
(* long before the next tick                                                 *)
sensor_tick(scene) ==
  /\ sensors' = CycleRun(StartSensorCycle(WallSensorsFromAdc(sensors).globals, scene))
  /\ last' = [NoCall EXCEPT !.op = "sensor_tick"]
  /\ UNCHANGED <<startFrame, pc, result, locals>>

(* entry: the sensors are enabled and the outer loop is entered *)
wait_for_user_start ==
  /\ pc = "idle"
  /\ sensors' = [sensors EXCEPT !.enabled = TRUE]
  /\ locals' = [NoLocals EXCEPT !.entry = "wait_for_user_start", !.count = 0,
                                !.choice = NO_START]
  /\ pc' = "poll_left"
  /\ last' = [NoCall EXCEPT !.op = "wait_for_user_start", !.wrote = sensors.enabled]
  /\ UNCHANGED <<startFrame, result>>

(* one test of while (occluded_left()) and, when it fails, the test of count *)
poll_left ==
  /\ pc = "poll_left"
  /\ Len(locals.polls) < MaxPolls
  /\ LET occluded == occluded_left(sensors)
         polled == Append(locals.polls, [side |-> LEFT_START, occluded |-> occluded])
     IN  /\ locals' = IF occluded
                        THEN [locals EXCEPT !.count = @ + 1, !.polls = polled]
                        ELSE IF HeldLongEnough(locals.count)
                               THEN [locals EXCEPT !.choice = LEFT_START, !.polls = polled]
                               ELSE [locals EXCEPT !.count = 0, !.polls = polled]
         /\ pc' = IF occluded THEN "poll_left"
                  ELSE IF HeldLongEnough(locals.count) THEN "chosen" ELSE "poll_right"
  /\ last' = [NoCall EXCEPT !.op = "occluded_left"]
  /\ UNCHANGED <<startFrame, sensors, result>>

(* one test of while (occluded_right()) and, when it fails, the test of      *)
(* count and the return to the head of the outer loop                         *)
poll_right ==
  /\ pc = "poll_right"
  /\ Len(locals.polls) < MaxPolls
  /\ LET occluded == occluded_right(sensors)
         polled == Append(locals.polls, [side |-> RIGHT_START, occluded |-> occluded])
     IN  /\ locals' = IF occluded
                        THEN [locals EXCEPT !.count = @ + 1, !.polls = polled]
                        ELSE IF HeldLongEnough(locals.count)
                               THEN [locals EXCEPT !.choice = RIGHT_START, !.polls = polled]
                               ELSE [locals EXCEPT !.count = 0, !.polls = polled]
         /\ pc' = IF occluded THEN "poll_right"
                  ELSE IF HeldLongEnough(locals.count) THEN "chosen" ELSE "poll_left"
  /\ last' = [NoCall EXCEPT !.op = "occluded_right"]
  /\ UNCHANGED <<startFrame, sensors, result>>

(* after the loop: the sensors are disabled and the choice is returned *)
user_started ==
  /\ pc = "chosen"
  /\ sensors' = [sensors EXCEPT !.enabled = FALSE]
  /\ result' = locals.choice
  /\ pc' = "started"
  /\ last' = [NoCall EXCEPT !.op = "user_started", !.result = locals.choice]
  /\ UNCHANGED <<startFrame, locals>>

NextStart ==
  \/ pc = "idle" /\ enable_sensors
  \/ pc = "idle" /\ disable_sensors
  \/ \E scene \in Scenes : pc # "started" /\ sensor_tick(scene)
  \/ wait_for_user_start
  \/ poll_left
  \/ poll_right
  \/ user_started

SpecStart == InitWalls /\ [][NextStart]_vars

(* --------------------------- the maze and the robot ---------------------- *)
(* The maze the robot stands in: the outer walls, the three walls of the     *)
(* start cell, and a lane north of the start cell walled on its east side    *)
(* for world.lane cells; a closed lane has a wall across its north end.      *)
(* pose is the cell the robot is in and the way it faces.                    *)
Worlds == [lane : 1 .. MaxLane, closed : BOOLEAN]

(* the cell that lies in a heading of a cell of the maze, as the comment at  *)
(* Location::north describes it: one cell on, wrapping to the opposite edge  *)
AdjacentCell(loc, h) ==
  CASE h = NORTH -> Location(loc.x, (loc.y + 1) % MAZE_WIDTH)
    [] h = EAST -> Location((loc.x + 1) % MAZE_WIDTH, loc.y)
    [] h = SOUTH -> Location(loc.x, (loc.y + MAZE_WIDTH - 1) % MAZE_WIDTH)
    [] h = WEST -> Location((loc.x + MAZE_WIDTH - 1) % MAZE_WIDTH, loc.y)

OuterWall(cell, h) ==
  \/ h = NORTH /\ cell.y = MAZE_WIDTH - 1
  \/ h = EAST /\ cell.x = MAZE_WIDTH - 1
  \/ h = SOUTH /\ cell.y = 0
  \/ h = WEST /\ cell.x = 0

LaneWall(w, cell, h) ==
  \/ h = EAST /\ cell.x = 0 /\ cell.y <= w.lane
  \/ h = NORTH /\ cell.x = 0 /\ cell.y = w.lane /\ w.closed

RealWall(w, cell, h) ==
  \/ OuterWall(cell, h)
  \/ LaneWall(w, cell, h)
  \/ LaneWall(w, AdjacentCell(cell, h), behind_from(h))

(* the cell the robot is in once it has driven on from the sensing point: the *)
(* cell ahead, or the cell it is in when a wall stands in the way             *)
EnteredCell(w, p) ==
  IF RealWall(w, p.cell, p.heading) THEN p.cell ELSE AdjacentCell(p.cell, p.heading)

(* the cell whose walls the sensors see in an iteration of the loop: at the   *)
(* head of the loop the robot is at the sensing point, about to enter it, and *)
(* at the decision pose already names it                                      *)
SensedCell == IF pc \in {"sensing", "following"} THEN EnteredCell(world, pose) ELSE pose.cell

(* sensors.see_front_wall, see_left_wall, see_right_wall at the sensing point: *)
(* the walls of the cell being entered                                         *)
see_front_wall == RealWall(world, SensedCell, pose.heading)

see_left_wall == RealWall(world, SensedCell, left_from(pose.heading))

see_right_wall == RealWall(world, SensedCell, right_from(pose.heading))

(* -------------------------------- Mouse ---------------------------------- *)
SensedState(wallSeen) == IF wallSeen THEN WALL ELSE EXIT

(* update_map: the three walls seen are entered for the stored location *)
UpdateMap(wallArray, loc, hdg, leftWall, frontWall, rightWall) ==
  LET front == UpdateWallStateIn(wallArray, loc, hdg, SensedState(frontWall))
      right == UpdateWallStateIn(front, loc, right_from(hdg), SensedState(rightWall))
      left == UpdateWallStateIn(right, loc, left_from(hdg), SensedState(leftWall))
  IN  IF hdg \in Heading THEN left ELSE wallArray

(* a dispatch that leaves the code of the iteration at '#' *)
ActionForNone(hdgChange) == "#"

(* the letter logged for a change of heading, '#' when none is dispatched *)
ActionFor(hdgChange) ==
  CASE hdgChange = AHEAD -> "F"
    [] hdgChange = RIGHT -> "R"
    [] hdgChange = BACK -> "B"
    [] hdgChange = LEFT -> "L"

(* a turn_left that reckons the heading as turn_right does *)
HeadingAfterLeftAsRight(hdg, hdgChange) ==
  CASE hdgChange = AHEAD -> hdg
    [] hdgChange = RIGHT -> (hdg + 1) % 4
    [] hdgChange = BACK -> (hdg + 2) % 4
    [] hdgChange = LEFT -> (hdg + 1) % 4

(* heading after move_ahead, turn_right, turn_back, turn_left *)
HeadingAfter(hdg, hdgChange) ==
  CASE hdgChange = AHEAD -> hdg
    [] hdgChange = RIGHT -> (hdg + 1) % 4
    [] hdgChange = BACK -> (hdg + 2) % 4
    [] hdgChange = LEFT -> (hdg + 3) % 4

(* steering mode after move_ahead (left as it is) and after a turn: turn_smooth *)
(* and stop_at_center switch the steering off                                  *)
SteeringAfter(mode, hdgChange) ==
  IF hdgChange = AHEAD THEN mode ELSE STEERING_OFF

(* the number of calls of move_ahead in a search, counted up to MAZE_WIDTH *)
AheadsAfter(count, hdgChange) ==
  IF hdgChange = AHEAD /\ count < MAZE_WIDTH THEN count + 1 ELSE count

(* the statements of search_to after its loop: the mouse halts and 0 is returned *)
ReturnValue == 0

(* ------------------------- commands and the log -------------------------- *)
(* a call of the motion interface or of reporter.log_action_status, with the  *)
(* steering mode in force when it is made                                     *)
Event(cmd, arg, mode) == [cmd |-> cmd, arg |-> arg, steering |-> mode]

Command(cmd, mode) == Event(cmd, "", mode)

Logged(code, mode) == Event("log_action_status", code, mode)

(* search_to and follow_to up to the loop: the drive is reset, a mouse that   *)
(* was not put down by hand backs up to the wall behind, and the mouse runs   *)
(* to the first sensing point                                                 *)
StartUp(mode, byHand) ==
  <<Command("reset_drive_system", mode)>>
    \o (IF byHand THEN <<>> ELSE <<Command("move", STEERING_OFF)>>)
    \o <<Command("move", STEERING_OFF), Command("set_position", STEERING_OFF),
         Command("wait_until_position", STEERING_OFF)>>

MoveAhead(mode) ==
  <<Command("adjust_forward_position", mode), Command("wait_until_position", mode)>>

(* turn_smooth once its wait is over: the record of what ended the wait, the  *)
(* turn and the run out to the sensing point                                  *)
TurnSmoothTurn(bySensor) ==
  (IF bySensor
     THEN <<Command("set_target_velocity", STEERING_OFF), Logged("S", STEERING_OFF)>>
     ELSE <<Logged("D", STEERING_OFF)>>)
    \o <<Command("turn", STEERING_OFF), Command("move", STEERING_OFF),
         Command("set_position", STEERING_OFF)>>

(* a turn_smooth that leaves the steering as it finds it *)
TurnSmoothSteeringKept(mode, bySensor) ==
  <<Command("set_target_velocity", mode)>>
    \o (IF bySensor
          THEN <<Command("set_target_velocity", mode), Logged("S", mode)>>
          ELSE <<Logged("D", mode)>>)
    \o <<Command("turn", mode), Command("move", mode), Command("set_position", mode)>>

(* turn_smooth entered in steering mode `mode`: the steering is switched off  *)
(* before anything is commanded                                               *)
TurnSmooth(mode, bySensor) ==
  <<Command("set_target_velocity", STEERING_OFF)>> \o TurnSmoothTurn(bySensor)

StopAtCenter ==
  <<Command("start_move", STEERING_OFF), Command("stop", STEERING_OFF)>>

(* turn_IP90R, turn_IP90L, turn_IP180 *)
SpinTurn(mode) == <<Command("spin_turn", mode)>>

(* a turn_back that spins without stopping first *)
TurnBackOnTheMove(mode) ==
  SpinTurn(mode) \o <<Command("move", mode), Command("set_position", mode)>>

(* turn_back entered in steering mode `mode` *)
TurnBack(mode) ==
  StopAtCenter \o SpinTurn(STEERING_OFF)
    \o <<Command("move", STEERING_OFF), Command("set_position", STEERING_OFF)>>

(* the calls of move_ahead, turn_right, turn_back, turn_left *)
Dispatch(hdgChange, mode, bySensor) ==
  CASE hdgChange = AHEAD -> MoveAhead(mode)
    [] hdgChange = RIGHT -> TurnSmooth(mode, bySensor)
    [] hdgChange = BACK -> TurnBack(mode)
    [] hdgChange = LEFT -> TurnSmooth(mode, bySensor)

(* the statements after the loop of search_to and follow_to *)
Halt == StopAtCenter \o <<Command("reset_drive_system", STEERING_OFF)>>

(* turn_to_face: a spin unless the mouse faces the new heading already *)
TurnToFace(hdg, newHeading, mode) ==
  IF (newHeading - hdg) % 4 = AHEAD THEN <<>> ELSE SpinTurn(mode)

(* search_maze: the mouse is put in the start cell of a maze facing north and *)
(* search_to(goal) runs up to its loop                                        *)
search_to(goal, w) ==
  /\ pc = "idle"
  /\ last.op = "initialise"
  /\ LET done == Flooded(m_walls, goal)
     IN  /\ m_cost' = done.cost
         /\ m_walls' = done.walls
         /\ last' = [NoCall EXCEPT !.op = "search_to", !.loc = goal,
                                   !.wrote = (Len(done.queue) = 0), !.taken = done.taken]
  /\ search_target' = goal
  /\ world' = w
  /\ pose' = [cell |-> START, heading |-> NORTH]
  /\ location' = START
  /\ mouse_heading' = NORTH
  /\ pc' = IF START # goal THEN "sensing" ELSE "returned"
  /\ result' = IF START # goal THEN result ELSE ReturnValue
  /\ action' = "#"
  /\ aheads' = 0
  /\ sensors' = [sensors EXCEPT !.enabled = (START # goal), !.steering_mode = STEERING_OFF]
  /\ trace' = StartUp(sensors.steering_mode, TRUE) \o (IF START # goal THEN <<>> ELSE Halt)
  /\ motion' = IF START # goal THEN AtSensingPoint ELSE Centred
  /\ locals' = [NoLocals EXCEPT !.entry = "search_maze", !.leg = 1]
  /\ UNCHANGED <<m_mask, beyond, packed, ops, button, snapshotVars>>

(* a loop head that polls the button after the stored location has moved on *)
search_sense_polls_late(button_pressed) ==
  /\ pc = "sensing"
  /\ IF button_pressed
       THEN /\ pc' = "returned"
            /\ result' = ReturnValue
            /\ last' = [NoCall EXCEPT !.op = "abort", !.loc = location, !.heading = mouse_heading]
            /\ sensors' = [sensors EXCEPT !.enabled = FALSE, !.steering_mode = STEERING_OFF]
            /\ location' = neighbour(location, mouse_heading)
            /\ trace' = Halt
            /\ motion' = Centred
            /\ UNCHANGED <<m_walls, m_cost, pose>>
       ELSE LET entered == neighbour(location, mouse_heading)
                mapped == UpdateMap(m_walls, entered, mouse_heading,
                                    see_left_wall, see_front_wall, see_right_wall)
                done == Flooded(mapped, search_target)
            IN  /\ location' = entered
                /\ m_cost' = done.cost
                /\ m_walls' = done.walls
                /\ last' = [NoCall EXCEPT !.op = "update_map", !.loc = entered,
                                          !.heading = mouse_heading,
                                          !.wrote = (Len(done.queue) = 0),
                                          !.taken = done.taken]
                /\ pose' = [pose EXCEPT !.cell = EnteredCell(world, pose)]
                /\ pc' = "deciding"
                /\ sensors' = [sensors EXCEPT !.steering_mode = STEER_NORMAL]
                /\ trace' = <<Logged("-", sensors.steering_mode)>>
                /\ UNCHANGED <<result, motion>>
  /\ UNCHANGED <<m_mask, beyond, packed, ops, mouse_heading, search_target, action, aheads,
                 world, button, snapshotVars, locals>>

(* the head of the loop at the sensing point: the button is polled, the stored *)
(* location moves on, the map is updated and the maze is flooded               *)
search_sense(button_pressed) ==
  /\ pc = "sensing"
  /\ IF button_pressed
       THEN /\ pc' = "returned"
            /\ result' = ReturnValue
            /\ last' = [NoCall EXCEPT !.op = "abort", !.loc = location, !.heading = mouse_heading]
            /\ sensors' = [sensors EXCEPT !.enabled = FALSE, !.steering_mode = STEERING_OFF]
            /\ trace' = Halt
            /\ motion' = Centred
            /\ UNCHANGED <<m_walls, m_cost, location, pose>>
       ELSE LET entered == neighbour(location, mouse_heading)
                mapped == UpdateMap(m_walls, entered, mouse_heading,
                                    see_left_wall, see_front_wall, see_right_wall)
                done == Flooded(mapped, search_target)
            IN  /\ location' = entered
                /\ m_cost' = done.cost
                /\ m_walls' = done.walls
                /\ last' = [NoCall EXCEPT !.op = "update_map", !.loc = entered,
                                          !.heading = mouse_heading,
                                          !.wrote = (Len(done.queue) = 0),
                                          !.taken = done.taken]
                /\ pose' = [pose EXCEPT !.cell = EnteredCell(world, pose)]
                /\ pc' = "deciding"
                /\ sensors' = [sensors EXCEPT !.steering_mode = STEER_NORMAL]
                /\ trace' = <<Logged("-", sensors.steering_mode)>>
                /\ UNCHANGED <<result, motion>>
  /\ UNCHANGED <<m_mask, beyond, packed, ops, mouse_heading, search_target, action, aheads,
                 world, button, snapshotVars, locals>>

(* a decision whose turns poll the button and give up when it is down *)
search_decide_polls_in_turn ==
  /\ pc = "deciding"
  /\ LET newHeading == heading_to_smallest(location, mouse_heading)
         hdgChange == (newHeading - mouse_heading) % 4
     IN  IF location # search_target /\ button /\ hdgChange # AHEAD
           THEN /\ last' = [NoCall EXCEPT !.op = "abort", !.loc = location,
                                          !.heading = mouse_heading]
                /\ pc' = "returned"
                /\ result' = ReturnValue
                /\ sensors' = [sensors EXCEPT !.enabled = FALSE,
                                              !.steering_mode = STEERING_OFF]
                /\ trace' = Halt
                /\ motion' = Centred
                /\ UNCHANGED <<mouse_heading, pose, aheads, action>>
           ELSE /\ last' = [NoCall EXCEPT !.op = "decide", !.loc = location,
                                          !.heading = mouse_heading, !.result = newHeading]
                /\ IF location # search_target
                     THEN /\ mouse_heading' = HeadingAfter(mouse_heading, hdgChange)
                          /\ action' = ActionFor(hdgChange)
                          /\ aheads' = AheadsAfter(aheads, hdgChange)
                          /\ pose' = [pose EXCEPT
                                        !.heading = HeadingAfter(pose.heading, hdgChange)]
                          /\ sensors' = [sensors EXCEPT
                                           !.steering_mode = SteeringAfter(@, hdgChange)]
                          /\ \E bySensor \in BOOLEAN :
                               trace' = Dispatch(hdgChange, sensors.steering_mode, bySensor)
                                          \o <<Logged(ActionFor(hdgChange),
                                                      SteeringAfter(sensors.steering_mode, hdgChange))>>
                          /\ motion' = AtSensingPoint
                          /\ pc' = "sensing"
                          /\ UNCHANGED result
                     ELSE /\ action' = "#"
                          /\ pc' = "returned"
                          /\ result' = ReturnValue
                          /\ sensors' = [sensors EXCEPT !.enabled = FALSE,
                                                        !.steering_mode = STEERING_OFF]
                          /\ trace' = <<Logged("#", sensors.steering_mode)>> \o Halt
                          /\ motion' = Centred
                          /\ UNCHANGED <<mouse_heading, pose, aheads>>
  /\ UNCHANGED <<m_walls, m_cost, m_mask, beyond, packed, ops, location, search_target,
                 world, button, snapshotVars, locals>>

(* the decision: the heading to the smallest cost becomes a change of heading *)
(* and, unless the target is reached, a move is dispatched                    *)
search_decide ==
  /\ pc = "deciding"
  /\ LET newHeading == heading_to_smallest(location, mouse_heading)
         hdgChange == (newHeading - mouse_heading) % 4
     IN  /\ last' = [NoCall EXCEPT !.op = "decide", !.loc = location, !.heading = mouse_heading,
                                   !.result = newHeading]
         /\ IF location # search_target
              THEN /\ mouse_heading' = HeadingAfter(mouse_heading, hdgChange)
                   /\ action' = ActionFor(hdgChange)
                   /\ aheads' = AheadsAfter(aheads, hdgChange)
                   /\ pose' = [pose EXCEPT !.heading = HeadingAfter(pose.heading, hdgChange)]
                   /\ sensors' = [sensors EXCEPT
                                    !.steering_mode = SteeringAfter(@, hdgChange)]
                   /\ \E bySensor \in BOOLEAN :
                        trace' = Dispatch(hdgChange, sensors.steering_mode, bySensor)
                                   \o <<Logged(ActionFor(hdgChange),
                                               SteeringAfter(sensors.steering_mode, hdgChange))>>
                   /\ motion' = AtSensingPoint
                   /\ pc' = "sensing"
                   /\ UNCHANGED result
              ELSE /\ action' = "#"
                   /\ pc' = "returned"
                   /\ result' = ReturnValue
                   /\ sensors' = [sensors EXCEPT !.enabled = FALSE,
                                                 !.steering_mode = STEERING_OFF]
                   /\ trace' = <<Logged("#", sensors.steering_mode)>> \o Halt
                   /\ motion' = Centred
                   /\ UNCHANGED <<mouse_heading, pose, aheads>>
  /\ UNCHANGED <<m_walls, m_cost, m_mask, beyond, packed, ops, location, search_target,
                 world, button, snapshotVars, locals>>

(* the target of the search: maze.goal() as the maze is constructed *)
SearchTargets == {Location(7, 7)}

NextSearch ==
  \/ pc = "idle" /\ initialise
  \/ \E goal \in SearchTargets, w \in Worlds : search_to(goal, w)
  \/ \E button_pressed \in BOOLEAN : search_sense(button_pressed)
  \/ search_decide

SpecSearch == Init /\ [][NextSearch]_vars

(* a search that the user does not abort, in a maze whose lane is open.      *)
(* Every motion comes to its end, so the loop of search_to goes on as long   *)
(* as it has a next step: the decision is taken when it is due, and the      *)
(* head of the loop, which can be taken whenever the loop is at the sensing  *)
(* point and then leaves it, does not wait there forever.                    *)
OpenWorlds == {w \in Worlds : ~w.closed}

NextSearchOn ==
  \/ pc = "idle" /\ initialise
  \/ \E goal \in SearchTargets, w \in OpenWorlds : search_to(goal, w)
  \/ search_sense(FALSE)
  \/ search_decide

SpecSearchOn ==
  Init /\ [][NextSearchOn]_vars /\ WF_vars(search_decide) /\ []<>(pc # "sensing")

(* the maze with the outer walls and a walled lane from (0,0) to the north    *)
(* edge, searched to the far end of the lane without an abort                 *)
Corridor == [lane |-> MAZE_WIDTH - 1, closed |-> FALSE]

CorridorEnd == Location(0, MAZE_WIDTH - 1)

NextCorridor ==
  \/ pc = "idle" /\ initialise
  \/ search_to(CorridorEnd, Corridor)
  \/ search_sense(FALSE)
  \/ search_decide

SpecCorridor == Init /\ [][NextCorridor]_vars

(* ----------------------------- wall follower ----------------------------- *)
(* a follower that goes straight on whenever it can *)
FollowChangeStraightFirst(leftWall, frontWall, rightWall) ==
  CASE ~frontWall -> AHEAD
    [] frontWall /\ ~leftWall -> LEFT
    [] frontWall /\ leftWall /\ ~rightWall -> RIGHT
    [] OTHER -> BACK

(* the change of heading the follower chooses from the walls seen *)
FollowChange(leftWall, frontWall, rightWall) ==
  CASE ~leftWall -> LEFT
    [] leftWall /\ ~frontWall -> AHEAD
    [] leftWall /\ frontWall /\ ~rightWall -> RIGHT
    [] OTHER -> BACK

(* follow_to up to its loop: the mouse is put in the start cell heading north *)
(* and the maze is initialised                                                *)
follow_to(goal, w) ==
  /\ pc = "idle"
  /\ m_walls' = InitialisedWalls
  /\ m_mask' = MASK_OPEN
  /\ last' = [NoCall EXCEPT !.op = "follow_to", !.loc = goal, !.wrote = TRUE]
  /\ search_target' = goal
  /\ world' = w
  /\ pose' = [cell |-> START, heading |-> NORTH]
  /\ location' = START
  /\ mouse_heading' = NORTH
  /\ pc' = IF START # goal THEN "following" ELSE "returned"
  /\ action' = "#"
  /\ aheads' = 0
  /\ sensors' = [sensors EXCEPT !.enabled = (START # goal), !.steering_mode = STEERING_OFF]
  /\ trace' = StartUp(sensors.steering_mode, TRUE) \o (IF START # goal THEN <<>> ELSE Halt)
  /\ motion' = IF START # goal THEN AtSensingPoint ELSE Centred
  /\ locals' = [NoLocals EXCEPT !.entry = "follow_to"]
  /\ UNCHANGED <<m_cost, beyond, packed, ops, result, button, snapshotVars>>

(* the head of the follower's loop: the button is polled, the stored location *)
(* moves on and the map is updated                                            *)
follow_sense(button_pressed) ==
  /\ pc = "following"
  /\ IF button_pressed
       THEN /\ pc' = "returned"
            /\ last' = [NoCall EXCEPT !.op = "abort", !.loc = location, !.heading = mouse_heading]
            /\ sensors' = [sensors EXCEPT !.enabled = FALSE, !.steering_mode = STEERING_OFF]
            /\ trace' = Halt
            /\ motion' = Centred
            /\ UNCHANGED <<m_walls, location, pose>>
       ELSE LET entered == neighbour(location, mouse_heading)
            IN  /\ location' = entered
                /\ m_walls' = UpdateMap(m_walls, entered, mouse_heading,
                                        see_left_wall, see_front_wall, see_right_wall)
                /\ last' = [NoCall EXCEPT !.op = "update_map", !.loc = entered,
                                          !.heading = mouse_heading]
                /\ pose' = [pose EXCEPT !.cell = EnteredCell(world, pose)]
                /\ pc' = "follow_deciding"
                /\ sensors' = [sensors EXCEPT !.steering_mode = STEER_NORMAL]
                /\ trace' = <<Logged("-", sensors.steering_mode)>>
                /\ UNCHANGED motion
  /\ UNCHANGED <<m_cost, m_mask, beyond, packed, ops, mouse_heading, search_target, result,
                 action, aheads, world, button, snapshotVars, locals>>

(* the follower's decision from the walls seen, and the return from follow_to *)
(* when the target is entered                                                 *)
follow_decide ==
  /\ pc = "follow_deciding"
  /\ LET hdgChange == FollowChange(see_left_wall, see_front_wall, see_right_wall)
     IN  /\ last' = [NoCall EXCEPT !.op = "follow_decide", !.loc = location,
                                   !.heading = mouse_heading]
         /\ IF location # search_target
              THEN /\ mouse_heading' = HeadingAfter(mouse_heading, hdgChange)
                   /\ action' = ActionFor(hdgChange)
                   /\ aheads' = AheadsAfter(aheads, hdgChange)
                   /\ pose' = [pose EXCEPT !.heading = HeadingAfter(pose.heading, hdgChange)]
                   /\ sensors' = [sensors EXCEPT
                                    !.steering_mode = SteeringAfter(@, hdgChange)]
                   /\ \E bySensor \in BOOLEAN :
                        trace' = Dispatch(hdgChange, sensors.steering_mode, bySensor)
                                   \o <<Logged(ActionFor(hdgChange),
                                               SteeringAfter(sensors.steering_mode, hdgChange))>>
                   /\ motion' = AtSensingPoint
                   /\ pc' = "following"
              ELSE /\ action' = "#"
                   /\ pc' = "returned"
                   /\ sensors' = [sensors EXCEPT !.enabled = FALSE,
                                                 !.steering_mode = STEERING_OFF]
                   /\ trace' = <<Logged("#", sensors.steering_mode)>> \o Halt
                   /\ motion' = Centred
                   /\ UNCHANGED <<mouse_heading, pose, aheads>>
  /\ UNCHANGED <<m_walls, m_cost, m_mask, beyond, packed, ops, location, search_target,
                 result, world, button, snapshotVars, locals>>

(* the user presses or lets go of the button while the mouse runs *)
button_change ==
  /\ pc \notin {"idle", "returned"}
  /\ button' = ~button
  /\ UNCHANGED <<m_walls, m_cost, m_mask, beyond, packed, last, ops, location, mouse_heading,
                 search_target, pc, result, action, aheads, world, pose, sensors,
                 snapshotVars, primitiveVars>>

(* a search or a wall-following run with the button in the user's hand *)
NextRun ==
  \/ pc = "idle" /\ initialise
  \/ \E goal \in SearchTargets, w \in Worlds : search_to(goal, w)
  \/ search_sense(button)
  \/ search_decide
  \/ \E goal \in SearchTargets, w \in Worlds : follow_to(goal, w)
  \/ follow_sense(button)
  \/ follow_decide
  \/ button_change

SpecRun == Init /\ [][NextRun]_vars

(* ------------------- update_map under the sampling tick ------------------- *)
(* readings on either side of the thresholds *)
TickReadings ==
  [lfs : {0, FRONT_THRESHOLD}, rfs : {1}, lss : {LEFT_THRESHOLD, LEFT_THRESHOLD + 1},
   rss : {RIGHT_THRESHOLD, RIGHT_THRESHOLD + 1}]

(* the sampling interrupt: update_wall_sensors runs between any two           *)
(* statements of the main loop                                                *)
systick(adc) ==
  /\ tick < MaxTicks
  /\ sensors.enabled
  /\ LET now == WallSensorsUpdate(sensors, adc.lfs, adc.lss, adc.rss, adc.rfs)
     IN  /\ sensors' = now.globals
         /\ last' = [NoCall EXCEPT !.op = "update_wall_sensors", !.wrote = TRUE,
                                   !.result = now.error]
  /\ tick' = tick + 1
  /\ UNCHANGED <<sensorFrame, seen, primitiveVars>>

snapshotFrame == <<m_cost, m_mask, beyond, packed, ops, location, mouse_heading, search_target,
                   result, action, aheads, world, pose, sensors, button, tick,
                   trace, motion, locals>>

(* the mouse comes to a decision point with the sensors running and calls     *)
(* update_map                                                                 *)
update_map_call ==
  /\ pc = "idle"
  /\ last.op = "update_wall_sensors"
  /\ pc' = "read_left"
  /\ seen' = NothingSeen
  /\ UNCHANGED <<m_walls, last, snapshotFrame>>

(* bool leftWall = sensors.see_left_wall *)
read_left_wall ==
  /\ pc = "read_left"
  /\ seen' = [seen EXCEPT !.leftWall = sensors.lss_has_wall, !.leftTick = tick]
  /\ pc' = "read_front"
  /\ UNCHANGED <<m_walls, last, snapshotFrame>>

(* bool frontWall = sensors.see_front_wall *)
read_front_wall ==
  /\ pc = "read_front"
  /\ seen' = [seen EXCEPT !.frontWall = sensors.front_has_wall, !.frontTick = tick]
  /\ pc' = "read_right"
  /\ UNCHANGED <<m_walls, last, snapshotFrame>>

(* bool rightWall = sensors.see_right_wall *)
read_right_wall ==
  /\ pc = "read_right"
  /\ seen' = [seen EXCEPT !.rightWall = sensors.rss_has_wall, !.rightTick = tick]
  /\ pc' = "store_walls"
  /\ UNCHANGED <<m_walls, last, snapshotFrame>>

(* the switch of update_map: the three flags read go into the map *)
store_walls ==
  /\ pc = "store_walls"
  /\ m_walls' = UpdateMap(m_walls, location, mouse_heading,
                          seen.leftWall, seen.frontWall, seen.rightWall)
  /\ last' = [NoCall EXCEPT !.op = "update_map", !.loc = location, !.heading = mouse_heading]
  /\ pc' = "idle"
  /\ UNCHANGED <<seen, snapshotFrame>>

NextSnapshot ==
  \/ pc = "idle" /\ enable_sensors
  \/ \E adc \in TickReadings : systick(adc)
  \/ update_map_call
  \/ read_left_wall
  \/ read_front_wall
  \/ read_right_wall
  \/ store_walls

SpecSnapshot == Init /\ [][NextSnapshot]_vars

(* ----------------- follow_to under the sampling tick ---------------------- *)
(* the head of the loop of follow_to with the button up: the stored location  *)
(* moves on and update_map is called (ops counts the calls of update_map)     *)
follow_enter ==
  /\ pc = "following"
  /\ ops < MaxOps
  /\ ops' = ops + 1
  /\ location' = neighbour(location, mouse_heading)
  /\ sensors' = [sensors EXCEPT !.steering_mode = STEER_NORMAL]
  /\ seen' = NothingSeen
  /\ pc' = "read_left"
  /\ last' = [NoCall EXCEPT !.op = "follow_enter", !.loc = location, !.heading = mouse_heading]
  /\ trace' = <<Logged("-", sensors.steering_mode)>>
  /\ UNCHANGED <<m_walls, m_cost, m_mask, beyond, packed, mouse_heading, search_target,
                 result, action, aheads, world, pose, button, tick, motion, locals>>

(* the switch of update_map called from follow_to: the three flags read go    *)
(* into the map and follow_to goes on to choose its action                    *)
follow_store_walls ==
  /\ pc = "store_walls"
  /\ m_walls' = UpdateMap(m_walls, location, mouse_heading,
                          seen.leftWall, seen.frontWall, seen.rightWall)
  /\ last' = [NoCall EXCEPT !.op = "update_map", !.loc = location, !.heading = mouse_heading]
  /\ pc' = "test_left"
  /\ UNCHANGED <<seen, snapshotFrame>>

(* a branch of the if chain of follow_to is taken: the turn or move is made   *)
(* and the loop is at its head again                                          *)
FollowTake(hdgChange) ==
  /\ action' = ActionFor(hdgChange)
  /\ mouse_heading' = HeadingAfter(mouse_heading, hdgChange)
  /\ sensors' = [sensors EXCEPT !.steering_mode = SteeringAfter(@, hdgChange)]
  /\ last' = [NoCall EXCEPT !.op = "follow_decide", !.loc = location,
                            !.heading = mouse_heading]
  /\ pc' = "following"
  /\ UNCHANGED <<m_walls, m_cost, m_mask, beyond, packed, ops, location, search_target,
                 result, aheads, world, pose, button, snapshotVars, primitiveVars>>

(* a test of the if chain finds a wall: the next test follows *)
FollowTestNext(next) ==
  /\ pc' = next
  /\ UNCHANGED <<m_walls, last, seen, snapshotFrame>>

(* if (location != target) { if (!sensors.see_left_wall) ... *)
follow_test_left ==
  /\ pc = "test_left"
  /\ IF location = search_target
       THEN /\ pc' = "returned"
            /\ UNCHANGED <<m_walls, last, seen, snapshotFrame>>
       ELSE IF ~sensors.lss_has_wall THEN FollowTake(LEFT) ELSE FollowTestNext("test_front")

(* else if (!sensors.see_front_wall) ... *)
follow_test_front ==
  /\ pc = "test_front"
  /\ IF ~sensors.front_has_wall THEN FollowTake(AHEAD) ELSE FollowTestNext("test_right")

(* else if (!sensors.see_right_wall) ... else turn_back() *)
follow_test_right ==
  /\ pc = "test_right"
  /\ IF ~sensors.rss_has_wall THEN FollowTake(RIGHT) ELSE FollowTake(BACK)

(* follow_to with the sampling interrupt falling between any two of its       *)
(* statements                                                                 *)
NextFollowTick ==
  \/ \E goal \in SearchTargets : follow_to(goal, [lane |-> 1, closed |-> FALSE])
  \/ follow_sense(TRUE)
  \/ follow_enter
  \/ \E adc \in TickReadings : systick(adc)
  \/ read_left_wall
  \/ read_front_wall
  \/ read_right_wall
  \/ follow_store_walls
  \/ follow_test_left
  \/ follow_test_front
  \/ follow_test_right

SpecFollowTick == InitWalls /\ [][NextFollowTick]_vars

(* ------------------------------- search_maze ------------------------------ *)
(* search_maze after search_to(goal) has returned: the maze is flooded for    *)
(* the way back                                                               *)
search_maze_flood ==
  /\ pc = "returned"
  /\ locals.entry = "search_maze"
  /\ locals.leg = 1
  /\ LET done == Flooded(m_walls, START)
     IN  /\ m_cost' = done.cost
         /\ m_walls' = done.walls
         /\ last' = [NoCall EXCEPT !.op = "search_maze_flood", !.loc = START,
                                   !.wrote = (Len(done.queue) = 0), !.taken = done.taken]
  /\ pc' = "flooded"
  /\ UNCHANGED <<m_mask, beyond, packed, ops, location, mouse_heading, search_target, result,
                 action, aheads, world, pose, sensors, button, snapshotVars, primitiveVars>>

(* turn_to_face(best_direction): the mouse spins on the spot and the heading  *)
(* passed becomes its heading                                                 *)
search_maze_turn ==
  /\ pc = "flooded"
  /\ LET best_direction == heading_to_smallest(location, mouse_heading)
         hdgChange == (best_direction - mouse_heading) % 4
     IN  /\ mouse_heading' = best_direction
         /\ pose' = [pose EXCEPT !.heading = HeadingAfter(pose.heading, hdgChange)]
         /\ trace' = TurnToFace(mouse_heading, best_direction, sensors.steering_mode)
         /\ last' = [NoCall EXCEPT !.op = "turn_to_face", !.loc = location,
                                   !.heading = mouse_heading, !.result = best_direction]
  /\ pc' = "turned"
  /\ UNCHANGED <<m_walls, m_cost, m_mask, beyond, packed, ops, location, search_target, result,
                 action, aheads, world, sensors, button, snapshotVars, motion, locals>>

(* handStart = false and search_to(START) up to its loop *)
search_back ==
  /\ pc = "turned"
  /\ LET done == Flooded(m_walls, START)
     IN  /\ m_cost' = done.cost
         /\ m_walls' = done.walls
         /\ last' = [NoCall EXCEPT !.op = "search_to", !.loc = START,
                                   !.wrote = (Len(done.queue) = 0), !.taken = done.taken]
  /\ search_target' = START
  /\ pc' = IF location # START THEN "sensing" ELSE "returned"
  /\ result' = IF location # START THEN result ELSE ReturnValue
  /\ action' = "#"
  /\ sensors' = [sensors EXCEPT !.enabled = (location # START),
                                !.steering_mode = STEERING_OFF]
  /\ trace' = StartUp(sensors.steering_mode, FALSE)
                \o (IF location # START THEN <<>> ELSE Halt)
  /\ motion' = IF location # START THEN AtSensingPoint ELSE Centred
  /\ locals' = [locals EXCEPT !.leg = 2]
  /\ UNCHANGED <<m_mask, beyond, packed, ops, location, mouse_heading, aheads, world, pose,
                 button, snapshotVars>>

(* turn_to_face(NORTH) and motion.stop() after search_to(START) has returned *)
search_maze_face_north ==
  /\ pc = "returned"
  /\ locals.entry = "search_maze"
  /\ locals.leg = 2
  /\ mouse_heading' = NORTH
  /\ pose' = [pose EXCEPT !.heading = HeadingAfter(pose.heading, (NORTH - mouse_heading) % 4)]
  /\ trace' = TurnToFace(mouse_heading, NORTH, sensors.steering_mode)
                \o <<Command("stop", sensors.steering_mode)>>
  /\ last' = [NoCall EXCEPT !.op = "turn_to_face", !.loc = location,
                            !.heading = mouse_heading, !.result = NORTH]
  /\ pc' = "done"
  /\ UNCHANGED <<m_walls, m_cost, m_mask, beyond, packed, ops, location, search_target, result,
                 action, aheads, world, sensors, button, snapshotVars, motion, locals>>

NextSearchMaze ==
  \/ pc = "idle" /\ initialise
  \/ \E goal \in SearchTargets, w \in Worlds : search_to(goal, w)
  \/ \E button_pressed \in BOOLEAN : search_sense(button_pressed)
  \/ search_decide
  \/ search_maze_flood
  \/ search_maze_turn
  \/ search_back
  \/ search_maze_face_north

SpecSearchMaze == InitWalls /\ [][NextSearchMaze]_vars

(* the functions the user starts: search_maze and follow_to *)
NextMouse ==
  \/ NextSearchMaze
  \/ \E goal \in SearchTargets, w \in Worlds : follow_to(goal, w)
  \/ \E button_pressed \in BOOLEAN : follow_sense(button_pressed)
  \/ follow_decide

SpecMouse == InitWalls /\ [][NextMouse]_vars

(* -------------- turn_smooth and stop_at_center, step by step -------------- *)
(* front readings on either side of the triggers of a smooth turn and of     *)
(* FRONT_REFERENCE, side readings on either side of the thresholds           *)
ApproachReadings ==
  [lfs : {0, turn_params[SS90EL].trigger, turn_params[SS90EL].trigger + 1,
          turn_params[SS90EL].trigger + 2 * EXTRA_WALL_ADJUST + 1, FRONT_REFERENCE},
   rfs : {0}, lss : {LEFT_THRESHOLD, LEFT_THRESHOLD + 1},
   rss : {RIGHT_THRESHOLD, RIGHT_THRESHOLD + 1}]

primitiveFrame == <<m_walls, m_cost, m_mask, beyond, packed, ops, location, mouse_heading,
                    search_target, result, action, aheads, world, pose, button, tick, seen>>

(* the sensors are enabled and the mouse runs up to the first sensing point,  *)
(* as search_to and follow_to do before their loop                            *)
run_up ==
  /\ pc = "idle"
  /\ motion = AtRest
  /\ sensors' = [sensors EXCEPT !.enabled = TRUE, !.steering_mode = STEERING_OFF]
  /\ trace' = StartUp(sensors.steering_mode, TRUE)
  /\ motion' = AtSensingPoint
  /\ last' = [NoCall EXCEPT !.op = "run_up"]
  /\ UNCHANGED <<primitiveFrame, pc, locals>>

(* the mouse rolls on; a move started by start_move is finished in the middle *)
(* of the next cell                                                           *)
robot_moves ==
  /\ pc \in {"idle", "turn_wait", "stop_wait"}
  /\ motion.position >= SENSING_POSITION
  /\ motion.position < FULL_CELL + HALF_CELL
  /\ motion' = [position |-> motion.position + PositionStep,
                finished |-> IF pc = "stop_wait"
                               THEN motion.position + PositionStep >= FULL_CELL + HALF_CELL
                               ELSE motion.finished]
  /\ UNCHANGED <<primitiveFrame, pc, sensors, last, trace, locals>>

(* a trigger that takes no account of the side walls *)
TurnTriggerUnadjusted(params, leftWall, rightWall) == params.trigger

(* the front sum that starts the turn early: further on for each side wall *)
TurnTrigger(params, leftWall, rightWall) ==
  params.trigger + (IF leftWall THEN EXTRA_WALL_ADJUST ELSE 0)
                 + (IF rightWall THEN EXTRA_WALL_ADJUST ELSE 0)

(* turn_smooth up to its loop *)
turn_smooth_call(turn_id) ==
  /\ pc = "idle"
  /\ sensors.enabled
  /\ motion.position >= SENSING_POSITION
  /\ sensors' = [sensors EXCEPT !.steering_mode = STEERING_OFF]
  /\ locals' = [locals EXCEPT
                  !.turn_id = turn_id,
                  !.trigger = TurnTrigger(turn_params[turn_id], sensors.lss_has_wall,
                                          sensors.rss_has_wall),
                  !.turn_point = FULL_CELL + turn_params[turn_id].run_in,
                  !.triggered_by_sensor = FALSE]
  /\ trace' = <<Command("set_target_velocity", STEERING_OFF)>>
  /\ pc' = "turn_wait"
  /\ last' = [NoCall EXCEPT !.op = "turn_smooth", !.result = turn_id]
  /\ UNCHANGED <<primitiveFrame, motion>>

(* the look of the loop of turn_smooth that ends the wait, and the rest of    *)
(* turn_smooth: the record, the turn and the run out                          *)
turn_smooth_poll ==
  /\ pc = "turn_wait"
  /\ \/ motion.position >= locals.turn_point
     \/ sensors.front_sum > locals.trigger
  /\ LET bySensor == motion.position < locals.turn_point
     IN  /\ locals' = [locals EXCEPT !.triggered_by_sensor = bySensor]
         /\ trace' = trace \o TurnSmoothTurn(bySensor)
  /\ motion' = AtSensingPoint
  /\ pc' = "idle"
  /\ last' = [NoCall EXCEPT !.op = "turn", !.result = locals.turn_id]
  /\ UNCHANGED <<primitiveFrame, sensors>>

(* stop_at_center up to its loop *)
stop_at_center_call ==
  /\ pc = "idle"
  /\ sensors.enabled
  /\ motion.position >= SENSING_POSITION
  /\ motion.position < FULL_CELL + HALF_CELL
  /\ locals' = [locals EXCEPT !.has_wall = sensors.front_has_wall]
  /\ sensors' = [sensors EXCEPT !.steering_mode = STEERING_OFF]
  /\ motion' = [motion EXCEPT !.finished = FALSE]
  /\ trace' = <<Command("start_move", STEERING_OFF)>>
  /\ pc' = "stop_wait"
  /\ last' = [NoCall EXCEPT !.op = "stop_at_center"]
  /\ UNCHANGED primitiveFrame

(* a stop_at_center that waits for the move whatever it saw ahead *)
StopWaitOverOnMove(hasWall, frontSum, finished) == finished

(* the condition that ends the wait of stop_at_center *)
StopWaitOver(hasWall, frontSum, finished) ==
  IF hasWall THEN ~(frontSum < FRONT_REFERENCE) ELSE finished

(* the look that ends the wait of stop_at_center, and motion.stop() *)
stop_at_center_poll ==
  /\ pc = "stop_wait"
  /\ StopWaitOver(locals.has_wall, sensors.front_sum, motion.finished)
  /\ trace' = trace \o <<Command("stop", sensors.steering_mode)>>
  /\ pc' = "stopped"
  /\ last' = [NoCall EXCEPT !.op = "stop"]
  /\ UNCHANGED <<primitiveFrame, sensors, motion, locals>>

NextPrimitives ==
  \/ run_up
  \/ \E adc \in ApproachReadings : systick(adc)
  \/ robot_moves
  \/ \E turn_id \in TurnIds : turn_smooth_call(turn_id)
  \/ turn_smooth_poll
  \/ stop_at_center_call
  \/ stop_at_center_poll

SpecPrimitives == InitWalls /\ [][NextPrimitives]_vars

(* ------------------------------ properties ------------------------------ *)
TypeOK ==
  /\ m_walls \in [0 .. MAZE_CELL_COUNT - 1 -> WallInfo]
  /\ m_cost \in [0 .. MAZE_CELL_COUNT - 1 -> 0 .. MAX_COST]
  /\ m_mask \in MazeMask

(* every flood ran until its queue was empty *)
FloodFinished == last.op = "flood" => last.wrote

(* the wall slot the latest call was about *)
LastSlot == WallField(WallsAt(m_walls, last.loc), last.heading)

(* C1: after a call of set_wall_state or update_wall_state on an in-maze    *)
(* cell, the neighbour in that heading is a cell of the maze (so the slot    *)
(* written for it is inside the wall array) and its wall for the opposite    *)
(* heading equals the wall of the cell for the heading.                      *)
C1_MirroredWall ==
  last.op \in {"set_wall_state", "update_wall_state"} =>
    LET n == neighbour(last.loc, last.heading)
    IN  /\ is_in_maze(n)
        /\ WallField(WallsAt(m_walls, n), behind_from(last.heading)) = LastSlot

(* C2: during exploration (initialise, then update_wall_state calls only) a  *)
(* wall slot that holds EXIT or WALL keeps its value in every later call.    *)
C2_WriteOnceMap ==
  [][last'.op = "update_wall_state" =>
       \A o \in 0 .. MAZE_CELL_COUNT - 1, h \in Heading :
         WallField(m_walls[o], h) \in {EXIT, WALL} =>
           WallField(m_walls'[o], h) = WallField(m_walls[o], h)]_vars

(* C3 as stated: update_wall_state on a slot that holds anything but UNKNOWN *)
(* (EXIT, WALL or VIRTUAL) leaves every wall slot of the map unchanged.      *)
C3_NoOpUnlessUnknown ==
  [][(/\ last'.op = "update_wall_state"
      /\ WallField(WallsAt(m_walls, last'.loc), last'.heading) # UNKNOWN)
       => m_walls' = m_walls]_vars

(* C3 amended: update_wall_state stores the state when the slot holds        *)
(* UNKNOWN or VIRTUAL and is a no-op on the whole map when it holds EXIT or  *)
(* WALL; so after a call that stored EXIT or WALL in a slot, a second call   *)
(* on the same slot leaves it as the first call set it.                      *)
C3_WriteOnlyUnseen ==
  [][last'.op = "update_wall_state" =>
       LET slot == WallField(WallsAt(m_walls, last'.loc), last'.heading)
           after == WallField(WallsAt(m_walls', last'.loc), last'.heading)
       IN  /\ slot \in {EXIT, WALL} => m_walls' = m_walls /\ ~last'.wrote
           /\ slot \in {UNKNOWN, VIRTUAL} => last'.wrote /\ after = last'.state
           /\ (/\ last.op = "update_wall_state" /\ last.wrote
               /\ last.state \in {EXIT, WALL}
               /\ last'.loc = last.loc /\ last'.heading = last.heading)
                => after = last.state]_vars

(* two calls on one slot: the first stored WALL, the second asked for EXIT   *)
(* and returned early                                                         *)
C3_Witness ==
  /\ last.op = "update_wall_state" /\ ~last.wrote /\ ops = 2
  /\ last.state = EXIT /\ LastSlot = WALL
  /\ ~is_in_maze(neighbour(last.loc, last.heading))

(* number of steps to the target through walls that is_exit reports          *)
(* passable, by breadth-first layers; MAX_COST where there is no path        *)
RECURSIVE StepsFrom(_, _, _)
StepsFrom(dist, frontier, d) ==
  IF frontier = {} \/ d >= MAX_COST THEN dist
  ELSE LET reached == {n \in Cells : \E c \in frontier, h \in Heading :
                                        is_exit(c, h) /\ n = AdjacentCell(c, h)}
           fresh == {n \in reached : dist[n] = MAX_COST}
       IN  StepsFrom([n \in Cells |-> IF n \in fresh THEN d + 1 ELSE dist[n]], fresh, d + 1)

StepsTo(target) ==
  StepsFrom([n \in Cells |-> IF n = target THEN 0 ELSE MAX_COST], {target}, 0)

(* C4: when flood(target) has completed, the cost of every cell is its       *)
(* number of steps to the target through passable walls, MAX_COST exactly    *)
(* for the cells without a path, and 0 for the target.                       *)
C4_FloodIsShortestPath ==
  last.op = "flood" =>
    LET steps == StepsTo(last.loc)
    IN  \A c \in Cells : m_cost[Offset(c)] = steps[c]

(* C5: on the maze with boundary walls only, flood(Location(0,0)) leaves     *)
(* cost[(x,y)] = x + y for every cell.                                       *)
C5_OpenMazeManhattan ==
  (last.op = "flood" /\ last.loc = START /\ m_walls = OpenMazeWalls) =>
    \A c \in Cells : m_cost[Offset(c)] = c.x + c.y

(* place of a heading in the order start_heading, right, left, behind *)
LookOrder(start_heading, h) ==
  CASE h = start_heading -> 0
    [] h = right_from(start_heading) -> 1
    [] h = left_from(start_heading) -> 2
    [] h = behind_from(start_heading) -> 3

(* C6: a heading returned by heading_to_smallest is an exit of the cell, its *)
(* neighbour cost is the least of the four neighbour costs and is less than  *)
(* the cost of the cell, and among the headings with that least cost it is   *)
(* the first in the order start_heading, right, left, behind.                *)
C6_SmallestWithTieBreak ==
  (last.op = "heading_to_smallest" /\ last.result # BLOCKED) =>
    /\ last.result \in Heading
    /\ is_exit(last.loc, last.result)
    /\ neighbour_cost(last.loc, last.result) < cost(last.loc)
    /\ \A h \in Heading :
         /\ neighbour_cost(last.loc, last.result) <= neighbour_cost(last.loc, h)
         /\ neighbour_cost(last.loc, h) = neighbour_cost(last.loc, last.result)
              => LookOrder(last.heading, last.result) <= LookOrder(last.heading, h)

(* equal costs ahead and to the right, both below the cost of the cell: the  *)
(* heading ahead is returned                                                  *)
C6_Witness ==
  /\ last.op = "heading_to_smallest" /\ last.result = last.heading
  /\ neighbour_cost(last.loc, right_from(last.heading)) = neighbour_cost(last.loc, last.heading)
  /\ is_exit(last.loc, right_from(last.heading))

(* a heading of the cell that is an exit to a cell of lower cost *)
CheaperExit(cell, h) ==
  is_exit(cell, h) /\ CostAt(Memory, neighbour(cell, h)) < CostAt(Memory, cell)

(* C7: heading_to_smallest returns BLOCKED exactly when no heading of the    *)
(* cell is an exit to a cell of lower cost; so it returns BLOCKED where the  *)
(* cost is 0 and where every exit leads to a cell of cost MAX_COST.          *)
C7_BlockedIffNoCheaperExit ==
  last.op = "heading_to_smallest" =>
    /\ (last.result = BLOCKED) <=> ~(\E h \in Heading : CheaperExit(last.loc, h))
    /\ cost(last.loc) = 0 => last.result = BLOCKED
    /\ (\A h \in Heading :
          is_exit(last.loc, h) => CostAt(Memory, neighbour(last.loc, h)) = MAX_COST)
         => last.result = BLOCKED

(* BLOCKED is returned at a cell of cost 0 that has an exit *)
C7_Witness ==
  /\ last.op = "heading_to_smallest" /\ last.result = BLOCKED
  /\ cost(last.loc) = 0
  /\ \E h \in Heading : is_exit(last.loc, h)

(* C8: when at a decision point of search_to heading_to_smallest gives       *)
(* BLOCKED while the location is not the target, search_to stops there: it   *)
(* returns -1 and no move is dispatched.                                     *)
C8_BlockedStopsSearch ==
  (last.op = "decide" /\ last.result = BLOCKED /\ location # search_target) =>
    /\ pc = "returned"
    /\ result = -1
    /\ action = "#"

(* C9: when search_to has returned 0 the stored location is the target; a    *)
(* search ended by the button does not return 0 short of the target.         *)
C9_ZeroMeansAtTarget ==
  (pc = "returned" /\ result = 0) => location = search_target

(* C10: in a maze whose target can be reached, with the sensors reporting    *)
(* the walls of the cell being entered and no abort, a search that is in its *)
(* loop eventually returns with the stored location equal to the target.     *)
C10_SearchReachesTarget ==
  (pc = "sensing") ~> (pc = "returned" /\ location = search_target)

(* C11: in the corridor maze search_to(CorridorEnd) from the start cell       *)
(* heading north dispatches move_ahead only, never a turn, keeps the heading  *)
(* NORTH, and when it has returned the location is CorridorEnd, move_ahead    *)
(* was dispatched exactly 15 times and the result is 0.                       *)
C11_CorridorRun ==
  (pc # "idle" /\ world = Corridor /\ search_target = CorridorEnd) =>
    /\ action \in {"#", "F"}
    /\ mouse_heading = NORTH
    /\ pc = "returned" =>
         location = CorridorEnd /\ aheads = MAZE_WIDTH - 1 /\ result = 0

(* C12: after initialise(), whatever the map and the mask were before, every  *)
(* wall on the outer edge of the maze is WALL, the start cell has north EXIT  *)
(* and east, south and west WALL, every other cell has an unknown wall, and   *)
(* the mask is MASK_OPEN.                                                     *)
C12_InitialisePostcondition ==
  last.op = "initialise" =>
    /\ \A c \in Cells, h \in Heading :
         OuterWall(c, h) => WallField(walls(c), h) = WALL
    /\ walls(START) = [north |-> EXIT, east |-> WALL, south |-> WALL, west |-> WALL]
    /\ ~has_unknown_walls(START)
    /\ \A c \in Cells \ {START} : has_unknown_walls(c)
    /\ m_mask = MASK_OPEN

(* initialise() has run on a map that wall operations had written *)
C12_Witness ==
  /\ last.op = "initialise" /\ ops > 0
  /\ has_unknown_walls(Location(MAZE_WIDTH - 1, MAZE_WIDTH - 1))

(* C13: in the map that initialise() leaves, for every two adjacent cells of  *)
(* the maze the wall recorded at the one toward the other equals the wall     *)
(* recorded at the other toward the one.                                      *)
C13_InitialisedMirrored ==
  last.op = "initialise" =>
    \A c \in Cells, h \in Heading :
      ~OuterWall(c, h) =>
        WallField(walls(c), h) = WallField(walls(AdjacentCell(c, h)), behind_from(h))

(* C14: is_exit(loc, h) is true exactly when h is a cardinal heading and the  *)
(* stored wall is EXIT, or is UNKNOWN while the mask is MASK_OPEN; so it is   *)
(* false for WALL and VIRTUAL, for UNKNOWN under MASK_CLOSED and for BLOCKED. *)
C14_IsExitTable ==
  \A loc \in InCells, h \in Heading \cup {BLOCKED} :
    is_exit(loc, h) <=>
      /\ h \in Heading
      /\ \/ WallField(walls(loc), h) = EXIT
         \/ WallField(walls(loc), h) = UNKNOWN /\ m_mask = MASK_OPEN

(* under MASK_CLOSED a cell holds an UNKNOWN and a VIRTUAL wall, neither an exit *)
C14_Witness ==
  /\ m_mask = MASK_CLOSED
  /\ \E loc \in InCells, h \in Heading, g \in Heading :
       /\ WallField(walls(loc), h) = UNKNOWN /\ ~is_exit(loc, h)
       /\ WallField(walls(loc), g) = VIRTUAL /\ ~is_exit(loc, g)
       /\ ~is_exit(loc, BLOCKED)

(* C15: for a cell of the maze and a cardinal heading, neighbour(heading) is  *)
(* again a cell of the maze: the cell one step on in that heading, or the     *)
(* cell on the opposite edge when the step leaves the maze.                   *)
C15_NeighbourInMaze ==
  (last.op \in {"set_wall_state", "update_wall_state"} /\ is_in_maze(last.loc)) =>
    /\ is_in_maze(neighbour(last.loc, last.heading))
    /\ neighbour(last.loc, last.heading) = AdjacentCell(last.loc, last.heading)

(* the quarter turns clockwise that the logged action adds to the heading *)
QuarterTurns(letter) ==
  CASE letter = "F" -> 0
    [] letter = "R" -> 1
    [] letter = "B" -> 2
    [] letter = "L" -> 3

(* C18: the action dispatched in search_to adds 0 (move_ahead), 1            *)
(* (turn_right), 2 (turn_back) or 3 (turn_left) to the stored heading modulo  *)
(* 4, and when direction_to_smallest returned a cardinal heading the stored   *)
(* heading after the action is that heading.                                  *)
C18_HeadingBookkeeping ==
  (last.op = "decide" /\ pc = "sensing") =>
    /\ action \in {"F", "R", "B", "L"}
    /\ mouse_heading = (last.heading + QuarterTurns(action)) % 4
    /\ last.result \in Heading => mouse_heading = last.result

C18_Witness ==
  /\ last.op = "decide"
  /\ pc = "sensing"
  /\ action = "L"
  /\ last.result \in Heading
  /\ mouse_heading = last.result

(* C20: with the sensors enabled and the front sum not above the saturation   *)
(* value, update_wall_sensors returns, with left_error = SIDE_NOMINAL - lss   *)
(* and right_error = SIDE_NOMINAL - rss: in STEER_NORMAL left_error -         *)
(* right_error with both side walls, 2*left_error with the left wall only,    *)
(* -2*right_error with the right wall only, 0 with neither; in                *)
(* STEER_LEFT_WALL 2*left_error and in STEER_RIGHT_WALL -2*right_error        *)
(* whatever walls are seen; in STEERING_OFF 0.                                *)
C20_CrossTrackError ==
  (last.op = "update_wall_sensors" /\ last.wrote /\ sensors.front_sum <= FrontSaturation) =>
    LET left_error == SIDE_NOMINAL - sensors.lss
        right_error == SIDE_NOMINAL - sensors.rss
        mode == sensors.steering_mode
        left == sensors.lss_has_wall
        right == sensors.rss_has_wall
    IN  /\ (mode = STEER_NORMAL /\ left /\ right) => last.result = left_error - right_error
        /\ (mode = STEER_NORMAL /\ left /\ ~right) => last.result = 2 * left_error
        /\ (mode = STEER_NORMAL /\ ~left /\ right) => last.result = 0 - 2 * right_error
        /\ (mode = STEER_NORMAL /\ ~left /\ ~right) => last.result = 0
        /\ mode = STEER_LEFT_WALL => last.result = 2 * left_error
        /\ mode = STEER_RIGHT_WALL => last.result = 0 - 2 * right_error
        /\ mode = STEERING_OFF => last.result = 0

C20_Witness ==
  /\ last.op = "update_wall_sensors"
  /\ last.wrote
  /\ sensors.front_sum = FrontSaturation
  /\ sensors.steering_mode = STEER_RIGHT_WALL
  /\ ~sensors.rss_has_wall
  /\ sensors.lss_has_wall
  /\ last.result = (-2) * (SIDE_NOMINAL - RIGHT_THRESHOLD)

(* the loop heads and the decision points of search_to and follow_to *)
LoopHead == {"sensing", "following"}

DecisionPoint == {"deciding", "follow_deciding"}

(* C16: the button is polled once in an iteration, at the head of the loop:   *)
(* a step from the head of the loop aborts exactly when the button is down    *)
(* there, and it does so before the stored location and the map are touched;  *)
(* no other step aborts, and whatever the button does, a step from a decision *)
(* point where the target is not reached ends at the next loop head with the  *)
(* dispatched motion complete (the heading reckoned on by the action).        *)
C16_AbortPolledAtLoopHead ==
  [][/\ (pc \in LoopHead /\ pc' # pc) =>
          /\ button <=> (pc' = "returned" /\ last'.op = "abort")
          /\ button => (location' = location /\ m_walls' = m_walls)
     /\ (pc \notin LoopHead /\ last' # last) => last'.op # "abort"
     /\ (pc \in DecisionPoint /\ pc' # pc /\ location # search_target) =>
          /\ pc' \in LoopHead
          /\ action' \in {"F", "R", "B", "L"}
          /\ mouse_heading' = (mouse_heading + QuarterTurns(action')) % 4]_vars

(* the button went down after the decision point was reached, the turn was    *)
(* made to its end, and the run was given up at the next loop head            *)
C16_Witness ==
  /\ pc = "returned"
  /\ last.op = "abort"
  /\ action \in {"R", "B", "L"}
  /\ mouse_heading # NORTH
  /\ pose.heading = mouse_heading

(* C17: the step of search_to or follow_to that observes the button leaves    *)
(* the loop and returns, and the stored location, the stored heading, the     *)
(* wall map and the cost map are after it as they were before it.             *)
C17_AbortLeavesStateAlone ==
  [][(pc \in LoopHead /\ button /\ pc' # pc) =>
       /\ pc' = "returned"
       /\ location' = location
       /\ mouse_heading' = mouse_heading
       /\ m_walls' = m_walls
       /\ m_cost' = m_cost]_vars

C17_Witness ==
  /\ pc = "returned"
  /\ last.op = "abort"
  /\ button
  /\ location # START
  /\ location # search_target
  /\ location = last.loc

(* the walls the follower saw at its latest decision, told from where the     *)
(* robot is and the heading it had                                            *)
SeenAtDecision(h) == RealWall(world, pose.cell, h)

(* C19: at a decision point of follow_to where the cell entered is not the    *)
(* target exactly one action is dispatched: a left turn when no left wall is  *)
(* seen, else straight on when no front wall is seen, else a right turn when  *)
(* no right wall is seen, else a turn back; the follower never changes the    *)
(* cost map (it does not flood).                                              *)
C19_FollowDecisionRule ==
  [][/\ (pc = "follow_deciding" /\ pc' # pc /\ location # search_target) =>
          /\ pc' = "following"
          /\ action' = (CASE ~see_left_wall -> "L"
                          [] see_left_wall /\ ~see_front_wall -> "F"
                          [] see_left_wall /\ see_front_wall /\ ~see_right_wall -> "R"
                          [] OTHER -> "B")
          /\ mouse_heading' = (mouse_heading + QuarterTurns(action')) % 4
     /\ (pc \in {"following", "follow_deciding"} \/ last'.op = "follow_to") =>
          m_cost' = m_cost]_vars

C19_Witness ==
  /\ last.op = "follow_decide"
  /\ pc = "following"
  /\ action = "R"
  /\ SeenAtDecision(left_from(last.heading))
  /\ SeenAtDecision(last.heading)
  /\ ~SeenAtDecision(right_from(last.heading))

(* C21: whatever the steering mode and the side readings, update_wall_sensors *)
(* returns 0 when the front sum lfs + rfs is above the saturation value 100.  *)
C21_SaturatedFrontGivesZero ==
  (last.op = "update_wall_sensors" /\ sensors.front_sum > FrontSaturation) => last.result = 0

C21_Witness ==
  /\ last.op = "update_wall_sensors"
  /\ last.wrote
  /\ sensors.front_sum = sensors.lfs + sensors.rfs
  /\ sensors.front_sum = FrontSaturation + 1
  /\ sensors.steering_mode = STEER_LEFT_WALL
  /\ sensors.lss # SIDE_NOMINAL
  /\ last.result = 0

(* C22: the three wall flags update_map puts in the map were all written by   *)
(* one execution of update_wall_sensors, however the sampling interrupt falls *)
(* between the statements of the main loop.                                   *)
C22_FlagsFromOneTick ==
  pc = "store_walls" => (seen.leftTick = seen.frontTick /\ seen.frontTick = seen.rightTick)

(* C23: flood leaves every wall slot and the mask as they were, and a second  *)
(* flood with the same target right after it gives the same cost map.         *)
C23_FloodIdempotent ==
  [][/\ last'.op \in {"flood", "flood_again"} => (m_walls' = m_walls /\ m_mask' = m_mask)
     /\ last'.op = "flood_again" => m_cost' = m_cost]_vars

(* C24: a call of flood takes at most 256 entries from its queue, one for     *)
(* every cell at most, and comes to its end with the queue empty.             *)
C24_FloodQueueBounded ==
  last.op \in {"flood", "flood_again"} => (last.wrote /\ last.taken <= MAZE_CELL_COUNT)

(* the codes logged and the places of a command in a sequence of calls *)
LoggedCodes(events) ==
  [i \in 1 .. Len(SelectSeq(events, LAMBDA e : e.cmd = "log_action_status")) |->
     SelectSeq(events, LAMBDA e : e.cmd = "log_action_status")[i].arg]

CommandsNamed(events, cmd) == {i \in 1 .. Len(events) : events[i].cmd = cmd}

(* C25: turn_smooth starts its turn at the first of two events: the position *)
(* has reached FULL_CELL + run_in, or the front sum is above the trigger     *)
(* while the position is short of that point; the trigger is params.trigger  *)
(* plus EXTRA_WALL_ADJUST for each side wall seen when turn_smooth is        *)
(* entered; and exactly one record is logged before the turn, 'S' if the     *)
(* front sum ended the wait and 'D' otherwise.                               *)
C25_TurnStartsOnFirstEvent ==
  [][/\ (pc = "idle" /\ pc' = "turn_wait") =>
          /\ locals'.turn_point = FULL_CELL + turn_params[locals'.turn_id].run_in
          /\ locals'.trigger
               = turn_params[locals'.turn_id].trigger
                   + (IF sensors.lss_has_wall THEN EXTRA_WALL_ADJUST ELSE 0)
                   + (IF sensors.rss_has_wall THEN EXTRA_WALL_ADJUST ELSE 0)
          /\ LoggedCodes(trace') = <<>>
     /\ (pc = "turn_wait" /\ pc' = "turn_wait") =>
          (locals' = locals /\ LoggedCodes(trace') = <<>>
             /\ CommandsNamed(trace', "turn") = {})
     /\ (pc = "turn_wait" /\ pc' # "turn_wait") =>
          LET early == motion.position < locals.turn_point
                         /\ sensors.front_sum > locals.trigger
              due == motion.position >= locals.turn_point
          IN  /\ early \/ due
              /\ LoggedCodes(trace') = IF early THEN <<"S">> ELSE <<"D">>
              /\ Cardinality(CommandsNamed(trace', "turn")) = 1
              /\ \A i \in CommandsNamed(trace', "turn"),
                    j \in CommandsNamed(trace', "log_action_status") : j < i]_vars

(* a turn started early, by the front sum, with a wall on either side *)
C25_Witness ==
  /\ last.op = "turn"
  /\ locals.triggered_by_sensor
  /\ locals.trigger = turn_params[locals.turn_id].trigger + 2 * EXTRA_WALL_ADJUST
  /\ LoggedCodes(trace) = <<"S">>
  /\ sensors.front_sum > locals.trigger

(* C27: stop_at_center looks at the front-wall flag once, when it is         *)
(* entered; with a wall seen it does not return before the front sum has     *)
(* reached FRONT_REFERENCE, without one not before the move has finished;    *)
(* the last motion command it gives is motion.stop() and the steering is off *)
(* when it returns.                                                          *)
C27_StopAtCenter ==
  [][/\ (pc = "idle" /\ pc' = "stop_wait") => locals'.has_wall = sensors.front_has_wall
     /\ (pc = "stop_wait") => locals'.has_wall = locals.has_wall
     /\ (pc = "stop_wait" /\ pc' = "stopped") =>
          /\ locals.has_wall => sensors.front_sum >= FRONT_REFERENCE
          /\ ~locals.has_wall => motion.finished
          /\ trace'[Len(trace')].cmd = "stop"
          /\ sensors'.steering_mode = STEERING_OFF]_vars

(* no wall was seen on entry, one came into view during the wait, and the    *)
(* mouse stopped when its move had finished                                  *)
C27_Witness ==
  /\ pc = "stopped"
  /\ ~locals.has_wall
  /\ sensors.front_has_wall
  /\ sensors.front_sum < FRONT_REFERENCE
  /\ motion.finished
  /\ trace[Len(trace)].cmd = "stop"

(* commands that drive the mouse forward *)
MoveCommands ==
  {"move", "start_move", "turn", "adjust_forward_position", "wait_until_position"}

(* call i of a sequence of calls comes after a completed stop_at_center, with *)
(* no forward move between the stop and the call                              *)
StoppedBefore(events, i) ==
  \E j \in 2 .. i - 1 :
    /\ events[j].cmd = "stop"
    /\ events[j - 1].cmd = "start_move"
    /\ \A k \in j + 1 .. i - 1 : events[k].cmd \notin MoveCommands

(* C26: every spin turn (turn_IP180 in turn_back; turn_IP90L, turn_IP90R and *)
(* turn_IP180 in turn_to_face called from search_maze) comes after a         *)
(* completed stop_at_center, whose last command is motion.stop(), and no     *)
(* forward move is commanded between that stop and the spin.                 *)
C26_SpinAfterStop ==
  [][\A i \in CommandsNamed(trace \o trace', "spin_turn") :
       i > Len(trace) => StoppedBefore(trace \o trace', i)]_vars

(* search_maze has turned the mouse on the spot after its first search_to *)
C26_Witness ==
  /\ pc = "turned"
  /\ last.op = "turn_to_face"
  /\ CommandsNamed(trace, "spin_turn") # {}

(* C28: in search_to, follow_to and search_maze the steering is off whenever *)
(* a smooth turn or a spin turn is commanded, and it is off with the sensors *)
(* disabled when search_to or follow_to has returned; STEER_NORMAL is in     *)
(* force only from the head of an iteration to the next turn or stop, so the *)
(* only calls made under it are the records and move_ahead.                  *)
C28_SteeringOffInTurns ==
  /\ \A i \in DOMAIN trace :
       /\ trace[i].steering \in {STEER_NORMAL, STEERING_OFF}
       /\ trace[i].cmd \in {"turn", "spin_turn", "start_move", "stop"}
            => trace[i].steering = STEERING_OFF
       /\ trace[i].steering = STEER_NORMAL
            => trace[i].cmd \in {"log_action_status", "adjust_forward_position",
                                "wait_until_position"}
  /\ pc = "returned" => (sensors.steering_mode = STEERING_OFF /\ ~sensors.enabled)
  /\ sensors.steering_mode = STEER_NORMAL
       => (pc \in DecisionPoint \/ (pc \in LoopHead /\ action = "F"))
  /\ sensors.steering_mode \in {STEER_NORMAL, STEERING_OFF}

(* a smooth turn made from an iteration that was steering on the walls *)
C28_Witness ==
  /\ pc \in LoopHead
  /\ action \in {"L", "R"}
  /\ CommandsNamed(trace, "turn") # {}
  /\ sensors.steering_mode = STEERING_OFF
  /\ locals.entry = "follow_to"

(* the codes of the reporting interface *)
ActionCodes == {"-", "F", "L", "R", "B", "S", "D"}

(* C29: every code that search_to, follow_to and turn_smooth pass to         *)
(* reporter.log_action_status is one of '-', 'F', 'L', 'R', 'B', 'S', 'D',   *)
(* also in the iteration in which the mouse enters the target cell.          *)
C29_LoggedCodes ==
  \A i \in DOMAIN LoggedCodes(trace) : LoggedCodes(trace)[i] \in ActionCodes

(* C29 as it holds: the codes are '-', 'F', 'L', 'R', 'B', 'S', 'D' in every *)
(* iteration that dispatches a move, and '#' is logged in the iteration in   *)
(* which the mouse enters the target cell and no move is dispatched.         *)
C29_LoggedCodesOrNone ==
  \A i \in DOMAIN LoggedCodes(trace) :
    \/ LoggedCodes(trace)[i] \in ActionCodes
    \/ /\ LoggedCodes(trace)[i] = "#"
       /\ pc = "returned"
       /\ location = search_target
       /\ last.op \in {"decide", "follow_decide"}

(* the mouse has entered its target and logged '#' *)
C29_Witness ==
  /\ pc = "returned"
  /\ last.op = "decide"
  /\ location = search_target
  /\ LoggedCodes(trace) = <<"#">>

(* C30: whatever heading_to_smallest returns, the move that search_to        *)
(* dispatches takes the mouse in a heading h for which is_exit(location, h)  *)
(* holds under the open mask when the move is dispatched: the slot it drives *)
(* through is not recorded as WALL, and the next update of the location does *)
(* not cross a recorded wall.                                                *)
C30_DispatchThroughExit ==
  [][(pc = "deciding" /\ pc' = "sensing") =>
       /\ mouse_heading' \in Heading
       /\ m_mask = MASK_OPEN
       /\ is_exit(location, mouse_heading')
       /\ WallField(walls(location), mouse_heading') # WALL]_vars

(* C31: the stored heading of the mouse is one of NORTH, EAST, SOUTH, WEST  *)
(* in every state of search_maze, search_to and follow_to, also after        *)
(* turn_to_face(best_direction) in search_maze.                              *)
C31_HeadingIsCardinal == mouse_heading \in Heading

(* a wall slot through which is_exit lets the flood pass under the open mask *)
PassableWhenOpen(state) == BitAnd(state, MASK_OPEN) = EXIT

(* C32: during one search_to run under the open mask, with the target fixed, *)
(* the flooded cost of every cell does not decrease from the flood of one    *)
(* decision point to the flood of the next, and the map writes made between  *)
(* the floods (update_map) close passages only: no wall slot that was        *)
(* impassable under the open mask becomes passable.                          *)
C32_MonotoneReplanning ==
  [][(pc = "sensing" /\ pc' = "deciding") =>
       /\ m_mask = MASK_OPEN
       /\ \A o \in 0 .. MAZE_CELL_COUNT - 1 : m_cost'[o] >= m_cost[o]
       /\ \A o \in 0 .. MAZE_CELL_COUNT - 1, h \in Heading :
            ~PassableWhenOpen(WallField(m_walls[o], h))
              => ~PassableWhenOpen(WallField(m_walls'[o], h))]_vars

(* C33: every exit under MASK_CLOSED is an exit under MASK_OPEN; so when the *)
(* maze is flooded for one target under MASK_CLOSED and under MASK_OPEN, the *)
(* cost of every cell under MASK_CLOSED is not below its cost under          *)
(* MASK_OPEN, and a cell reached under MASK_CLOSED (cost below MAX_COST) is  *)
(* reached under MASK_OPEN.                                                  *)
C33_ClosedNotBelowOpen ==
  [][/\ (last'.op = "set_mask_between" /\ m_mask = MASK_CLOSED /\ m_mask' = MASK_OPEN) =>
          \A c \in Cells, h \in Heading : is_exit(c, h) => is_exit(c, h)'
     /\ (last'.op = "flood_remasked" /\ last.result = MASK_CLOSED /\ m_mask = MASK_OPEN) =>
          \A o \in 0 .. MAZE_CELL_COUNT - 1 :
            /\ m_cost[o] >= m_cost'[o]
            /\ m_cost[o] < MAX_COST => m_cost'[o] < MAX_COST
     /\ (last'.op = "flood_remasked" /\ last.result = MASK_OPEN /\ m_mask = MASK_CLOSED) =>
          \A o \in 0 .. MAZE_CELL_COUNT - 1 :
            /\ m_cost'[o] >= m_cost[o]
            /\ m_cost'[o] < MAX_COST => m_cost[o] < MAX_COST]_vars

(* C34: the action follow_to chooses at a decision point agrees with what    *)
(* the map holds, after update_map of the same iteration, for the cell       *)
(* entered: a left turn only if the wall to the left is EXIT in the map,     *)
(* straight on only if the wall ahead is EXIT, a right turn only if the wall *)
(* to the right is EXIT, wherever the sampling interrupt falls.              *)
C34_ActionAgreesWithMap ==
  last.op = "follow_decide" =>
    /\ action = "L" => WallField(walls(last.loc), left_from(last.heading)) = EXIT
    /\ action = "F" => WallField(walls(last.loc), last.heading) = EXIT
    /\ action = "R" => WallField(walls(last.loc), right_from(last.heading)) = EXIT

(* C35: search_maze starts the return leg search_to(START) only when the     *)
(* outbound leg ended with the location equal to the goal; when the outbound *)
(* search_to was given up by the user short of the goal, search_maze calls   *)
(* neither turn_to_face nor the second search_to.                            *)
C35_ReturnLegOnlyFromGoal ==
  [][/\ (locals.leg = 1 /\ locals'.leg = 2) => location = search_target
     /\ (/\ locals.entry = "search_maze" /\ locals.leg = 1
         /\ pc \in {"returned", "flooded", "turned"}
         /\ location # search_target)
          => last'.op \notin {"turn_to_face", "search_to"}]_vars

C37_AmbientSamplesUnlit == \A i \in 0 .. 5 : ~sensors.dark_sample[i].lit

(* C38: with the sensors disabled update_wall_sensors returns 0 and leaves   *)
(* the raw readings, the normalised readings, the front sum and the flags as *)
(* they were; with the sensors enabled each side flag is exactly (normalised *)
(* reading > threshold) and the front flag is (front sum > threshold) with   *)
(* the front sum lfs + rfs.                                                  *)
C38_WallSensorsUpdate ==
  [][last'.op = "update_wall_sensors_adc" =>
       IF ~sensors.enabled
         THEN /\ last'.result = 0
              /\ \A f \in {"lfs_raw", "lss_raw", "rss_raw", "rfs_raw", "lfs", "lss", "rss",
                           "rfs", "front_sum", "lss_has_wall", "rss_has_wall",
                           "front_has_wall"} : sensors'[f] = sensors[f]
         ELSE /\ sensors'.lss_has_wall = (sensors'.lss > LEFT_THRESHOLD)
              /\ sensors'.rss_has_wall = (sensors'.rss > RIGHT_THRESHOLD)
              /\ sensors'.front_sum = sensors'.lfs + sensors'.rfs
              /\ sensors'.front_has_wall = (sensors'.front_sum > FRONT_THRESHOLD)]_vars

(* a tick with the sensors disabled has kept the flags and readings of an    *)
(* earlier tick: a wall on the right, none on the left, one ahead            *)
C38_Witness ==
  /\ last.op = "update_wall_sensors_adc"
  /\ ~sensors.enabled
  /\ ~last.wrote
  /\ sensors.rss_has_wall /\ ~sensors.lss_has_wall /\ sensors.front_has_wall
  /\ sensors.lss_raw = 2 * LEFT_THRESHOLD
  /\ sensors.lss = LEFT_THRESHOLD
  /\ sensors.front_sum > FRONT_THRESHOLD

(* C39: wait_for_user_start never returns NO_START; it returns LEFT_START    *)
(* only after more than 5 polls of occluded_left in a row were true, and     *)
(* RIGHT_START only after more than 5 polls of occluded_right in a row were  *)
(* true; occluded_left and occluded_right are never true together; when it   *)
(* returns the sensors are disabled, whether or not they were enabled when   *)
(* it was called.                                                            *)
TruePollsBefore(polls, side) ==
  LET n == Len(polls)
      run == {k \in 1 .. n - 1 :
                \A j \in n - k .. n - 1 : polls[j].side = side /\ polls[j].occluded}
  IN  Cardinality(run)

C39_UserStart ==
  /\ ~(occluded_left(sensors) /\ occluded_right(sensors))
  /\ pc = "started" =>
       /\ result \in {LEFT_START, RIGHT_START}
       /\ ~sensors.enabled
       /\ TruePollsBefore(locals.polls, result) > 5
       /\ locals.polls[Len(locals.polls)] = [side |-> result, occluded |-> FALSE]

(* the hand was over the right front sensor for six polls and was taken      *)
(* away                                                                      *)
C39_Witness ==
  /\ pc = "started"
  /\ result = RIGHT_START
  /\ last.op = "user_started"
  /\ TruePollsBefore(locals.polls, RIGHT_START) = 6
  /\ ~sensors.enabled

====
